---- MODULE Spec2Model ----
(***************************************************************************)
(* Model of the incident-tracker store (src/database.py, class Database)   *)
(* and of the process-wide handle `db` that src/govno.py opens on it.      *)
(*                                                                         *)
(* The handle is one sqlite3 connection.  Python's sqlite3 module opens a  *)
(* transaction implicitly before the first INSERT/UPDATE/DELETE and keeps  *)
(* it open until conn.commit(); nothing in Database ever calls rollback(). *)
(* So the model keeps two copies of the tables: db.conn, what statements   *)
(* run through the handle read and write (pending changes included), and   *)
(* db.file, what has been committed to the database file.                  *)
(***************************************************************************)
EXTENDS Integers, Sequences, FiniteSets, TLC

VARIABLES db, last, issued, inflight

vars == <<db, last, issued, inflight>>

(***************************************************************************)
(* Input universes and bounds.                                             *)
(***************************************************************************)
\* Staff names, in the order SQLite's ORDER BY name gives them.  The model
\* writes every Cyrillic letter as the Latin letter of its transliteration
\* (strings of the model are ASCII); no text of the model holds a Latin letter
\* of its own.
NameOrder == <<"i p", "o s">>
Names == {NameOrder[i] : i \in 1..Len(NameOrder)}
Descriptions == {"d1"}
Texts == {"fixed"}
UserIds == {42}
Times == {10}
RequestedPriorities == {0 - 1, 0, 1, 2, 3}

\* The strings of the search specification: owners and descriptions stored,
\* and the user and text filters searched for.
SearchUsers == {"ab", "ba"}
SearchDescriptions == {"a7", "b_"}
UserFilters == {"a", "ab", "_"}
TextFilters == {"7", "b", "B", "%"}
StatusFilters == {"open", "closed"}
PriorityFilters == {1, 2, 3}

\* The characters of each string, as LIKE and str.isdigit read them.
Chars(s) ==
    CASE s = "i p" -> <<"i", " ", "p">>
      [] s = "o s" -> <<"o", " ", "s">>
      [] s = "u c" -> <<"u", " ", "c">>
      [] s = "u d" -> <<"u", " ", "d">>
      [] s = "u e" -> <<"u", " ", "e">>
      [] s = "u f" -> <<"u", " ", "f">>
      [] s = "u g" -> <<"u", " ", "g">>
      [] s = "i  p" -> <<"i", " ", " ", "p">>
      [] s = "d1" -> <<"d", "1">>
      [] s = "d!!!" -> <<"d", "!", "!", "!">>
      [] s = "fixed" -> <<"f", "i", "x", "e", "d">>
      [] s = "ab" -> <<"a", "b">>
      [] s = "ba" -> <<"b", "a">>
      [] s = "a7" -> <<"a", "7">>
      [] s = "b_" -> <<"b", "_">>
      [] s = "a" -> <<"a">>
      [] s = "b" -> <<"b">>
      [] s = "B" -> <<"B">>
      [] s = "_" -> <<"_">>
      [] s = "%" -> <<"%">>
      [] s = "7" -> <<"7">>
      [] s = "" -> <<>>
      [] s = "hello" -> <<"h", "e", "l", "l", "o">>
      [] s = "+1 kosyak i p - d1" -> <<"+", "1", " ", "k", "o", "s", "y", "a", "k", " ", "i", " ", "p", " ", "-", " ", "d", "1">>
      [] s = "+1 kosyak o s - d1" -> <<"+", "1", " ", "k", "o", "s", "y", "a", "k", " ", "o", " ", "s", " ", "-", " ", "d", "1">>
      [] s = "+1 kosyak !!! i p - d1" -> <<"+", "1", " ", "k", "o", "s", "y", "a", "k", " ", "!", "!", "!", " ", "i", " ", "p", " ", "-", " ", "d", "1">>
      [] s = "+1 kosyak i p - d!!!" -> <<"+", "1", " ", "k", "o", "s", "y", "a", "k", " ", "i", " ", "p", " ", "-", " ", "d", "!", "!", "!">>
      [] s = "+1 kosyak i p d1" -> <<"+", "1", " ", "k", "o", "s", "y", "a", "k", " ", "i", " ", "p", " ", "d", "1">>
      [] s = "+1 kosyak u c - d1" -> <<"+", "1", " ", "k", "o", "s", "y", "a", "k", " ", "u", " ", "c", " ", "-", " ", "d", "1">>
      [] s = "+1 kosyak i  p - d1" -> <<"+", "1", " ", "k", "o", "s", "y", "a", "k", " ", "i", " ", " ", "p", " ", "-", " ", "d", "1">>
      [] s = "-1 kosyak #1" -> <<"-", "1", " ", "k", "o", "s", "y", "a", "k", " ", "#", "1">>
      [] s = "-1 kosyak #1 - fixed" -> <<"-", "1", " ", "k", "o", "s", "y", "a", "k", " ", "#", "1", " ", "-", " ", "f", "i", "x", "e", "d">>
      [] s = "-1 kosyak #2 - fixed" -> <<"-", "1", " ", "k", "o", "s", "y", "a", "k", " ", "#", "2", " ", "-", " ", "f", "i", "x", "e", "d">>
      [] s = "-1 kosyak #9 - fixed" -> <<"-", "1", " ", "k", "o", "s", "y", "a", "k", " ", "#", "9", " ", "-", " ", "f", "i", "x", "e", "d">>
      [] s = "-1 kosyak 1" -> <<"-", "1", " ", "k", "o", "s", "y", "a", "k", " ", "1">>
      [] s = "-1 kosyak #1x" -> <<"-", "1", " ", "k", "o", "s", "y", "a", "k", " ", "#", "1", "x">>
      [] s = "/add_user i p" -> <<"/", "a", "d", "d", "_", "u", "s", "e", "r", " ", "i", " ", "p">>
      [] s = "/add_user  o  s " -> <<"/", "a", "d", "d", "_", "u", "s", "e", "r", " ", " ", "o", " ", " ", "s", " ">>
      [] s = "/add_user i" -> <<"/", "a", "d", "d", "_", "u", "s", "e", "r", " ", "i">>
      [] s = "/del_user i p" -> <<"/", "d", "e", "l", "_", "u", "s", "e", "r", " ", "i", " ", "p">>
      [] s = "/del_user o s" -> <<"/", "d", "e", "l", "_", "u", "s", "e", "r", " ", "o", " ", "s">>
      [] s = "/del_user i" -> <<"/", "d", "e", "l", "_", "u", "s", "e", "r", " ", "i">>
      [] s = "/find_mistake 1" -> <<"/", "f", "i", "n", "d", "_", "m", "i", "s", "t", "a", "k", "e", " ", "1">>
      [] s = "/find_mistake x" -> <<"/", "f", "i", "n", "d", "_", "m", "i", "s", "t", "a", "k", "e", " ", "x">>
      [] s = "/find_mistake" -> <<"/", "f", "i", "n", "d", "_", "m", "i", "s", "t", "a", "k", "e">>
      [] s = "/find_date 0" -> <<"/", "f", "i", "n", "d", "_", "d", "a", "t", "e", " ", "0">>
      [] s = "/find_date" -> <<"/", "f", "i", "n", "d", "_", "d", "a", "t", "e">>
      [] s = "/start" -> <<"/", "s", "t", "a", "r", "t">>
      [] s = "/clear_stats" -> <<"/", "c", "l", "e", "a", "r", "_", "s", "t", "a", "t", "s">>
      [] s = "clear_stats:confirm" -> <<"c", "l", "e", "a", "r", "_", "s", "t", "a", "t", "s", ":", "c", "o", "n", "f", "i", "r", "m">>
      [] s = "clear_stats:cancel" -> <<"c", "l", "e", "a", "r", "_", "s", "t", "a", "t", "s", ":", "c", "a", "n", "c", "e", "l">>
      [] s = "stats_type:users" -> <<"s", "t", "a", "t", "s", "_", "t", "y", "p", "e", ":", "u", "s", "e", "r", "s">>
      [] s = "stats_type:priority" -> <<"s", "t", "a", "t", "s", "_", "t", "y", "p", "e", ":", "p", "r", "i", "o", "r", "i", "t", "y">>
      [] s = "stats_type:status" -> <<"s", "t", "a", "t", "s", "_", "t", "y", "p", "e", ":", "s", "t", "a", "t", "u", "s">>
      [] s = "report:week" -> <<"r", "e", "p", "o", "r", "t", ":", "w", "e", "e", "k">>
      [] s = "report:month" -> <<"r", "e", "p", "o", "r", "t", ":", "m", "o", "n", "t", "h">>
      [] s = "report:all" -> <<"r", "e", "p", "o", "r", "t", ":", "a", "l", "l">>
      [] s = "search:by_user" -> <<"s", "e", "a", "r", "c", "h", ":", "b", "y", "_", "u", "s", "e", "r">>
      [] s = "search:by_id" -> <<"s", "e", "a", "r", "c", "h", ":", "b", "y", "_", "i", "d">>
      [] s = "search:by_date" -> <<"s", "e", "a", "r", "c", "h", ":", "b", "y", "_", "d", "a", "t", "e">>
      [] s = "show_user:i p" -> <<"s", "h", "o", "w", "_", "u", "s", "e", "r", ":", "i", " ", "p">>
      [] s = "show_user:u c" -> <<"s", "h", "o", "w", "_", "u", "s", "e", "r", ":", "u", " ", "c">>
      [] s = "stats_type:" -> <<"s", "t", "a", "t", "s", "_", "t", "y", "p", "e", ":">>
      [] s = "menu" -> <<"m", "e", "n", "u">>
      [] s = "confirm" -> <<"c", "o", "n", "f", "i", "r", "m">>
      [] s = "cancel" -> <<"c", "a", "n", "c", "e", "l">>
      [] s = "users" -> <<"u", "s", "e", "r", "s">>
      [] s = "priority" -> <<"p", "r", "i", "o", "r", "i", "t", "y">>
      [] s = "status" -> <<"s", "t", "a", "t", "u", "s">>
      [] s = "week" -> <<"w", "e", "e", "k">>
      [] s = "month" -> <<"m", "o", "n", "t", "h">>
      [] s = "all" -> <<"a", "l", "l">>
      [] s = "by_user" -> <<"b", "y", "_", "u", "s", "e", "r">>
      [] s = "by_id" -> <<"b", "y", "_", "i", "d">>
      [] s = "by_date" -> <<"b", "y", "_", "d", "a", "t", "e">>

\* The narrower inputs of the specification with store failures.
FaultNames == {"i p"}
FaultPriorities == {2, 3}

MaxId == 2
MaxComments == 1

Ids == 1..(MaxId + 1)

\* The incidents add_comment is called for: the first one, and one that never
\* exists.
CommentedIds == {1, MaxId + 1}

(***************************************************************************)
(* Priority(Enum)                                                          *)
(***************************************************************************)
NORMAL == 1
CRITICAL == 2

(***************************************************************************)
(* Store failures.  A fault names the store call of a method (its 1st, 2nd *)
(* ... cursor.execute, the last one being conn.commit) that raises         *)
(* sqlite3.Error.  SQLite undoes the failing statement; the transaction    *)
(* either stays open with the earlier statements' changes pending, or, for *)
(* some errors, is rolled back as a whole.                                 *)
(***************************************************************************)
NoFault == [at |-> 0, rollback |-> FALSE]

Faults(n) == {NoFault} \cup {[at |-> k, rollback |-> b] : k \in 1..n, b \in BOOLEAN}

Committed(conn) == [conn |-> conn, file |-> conn]

Failed(self, pending, fault) ==
    IF fault.rollback
    THEN [conn |-> self.file, file |-> self.file]
    ELSE [conn |-> pending, file |-> self.file]

(***************************************************************************)
(* Database.__init__ / create_tables: three empty tables.  users is keyed  *)
(* by name (the number of rows holding that name), mistakes and comments   *)
(* by their AUTOINCREMENT id; sqlite_sequence holds the largest id each    *)
(* AUTOINCREMENT table has ever assigned.                                  *)
(***************************************************************************)
EmptyTable == [i \in {} |-> 0]

create_tables ==
    [users |-> [n \in Names |-> 0],
     mistakes |-> EmptyTable,
     comments |-> EmptyTable,
     sqlite_sequence |-> [mistakes |-> 0, comments |-> 0]]

Database == Committed(create_tables)

(***************************************************************************)
(* Repository methods.  Each is a function of the handle, the arguments    *)
(* and the fault the store injects; it yields the handle afterwards, the   *)
(* return value and whether an exception left the method.                  *)
(***************************************************************************)
Result(self, ret) == [self |-> self, ret |-> ret, raised |-> FALSE]

Raised(self) == [self |-> self, ret |-> FALSE, raised |-> TRUE]

\* SELECT name FROM users
UserSet(conn) == {n \in Names : conn.users[n] > 0}

RECURSIVE SelectNames(_, _)
SelectNames(conn, i) ==
    IF i > Len(NameOrder) THEN <<>>
    ELSE [k \in 1..conn.users[NameOrder[i]] |-> NameOrder[i]] \o SelectNames(conn, i + 1)

get_users(self, fault) ==
    IF fault.at = 1 THEN Raised(Failed(self, self.conn, fault))
    ELSE Result(self, SelectNames(self.conn, 1))

\* add_user on a users table whose name column is not a PRIMARY KEY.
add_user_nokey(self, name, fault) ==
    LET ins == [self.conn EXCEPT !.users[name] = @ + 1]
    IN  IF fault.at = 1 THEN Raised(Failed(self, self.conn, fault))
        ELSE IF fault.at = 2 THEN Raised(Failed(self, ins, fault))
        ELSE Result(Committed(ins), TRUE)

add_user(self, name, fault) ==
    LET ins == [self.conn EXCEPT !.users[name] = @ + 1]
    IN  IF fault.at = 1 THEN Raised(Failed(self, self.conn, fault))
        ELSE IF self.conn.users[name] > 0 THEN Result(self, FALSE)
        ELSE IF fault.at = 2 THEN Raised(Failed(self, ins, fault))
        ELSE Result(Committed(ins), TRUE)

\* delete_user without the check for active mistakes.
delete_user_unchecked(self, name, fault) ==
    LET rowcount == self.conn.users[name]
        del == [self.conn EXCEPT !.users[name] = 0]
    IN  IF fault.at \in {1, 2} THEN Result(Failed(self, self.conn, fault), FALSE)
        ELSE IF fault.at = 3 THEN Result(Failed(self, del, fault), FALSE)
        ELSE Result(Committed(del), rowcount > 0)

delete_user(self, name, fault) ==
    LET active_mistakes ==
            Cardinality({i \in DOMAIN self.conn.mistakes :
                            /\ self.conn.mistakes[i].user = name
                            /\ self.conn.mistakes[i].closed = 0})
        rowcount == self.conn.users[name]
        del == [self.conn EXCEPT !.users[name] = 0]
    IN  IF fault.at = 1 THEN Result(Failed(self, self.conn, fault), FALSE)
        ELSE IF active_mistakes > 0 THEN Result(self, FALSE)
        ELSE IF fault.at = 2 THEN Result(Failed(self, self.conn, fault), FALSE)
        ELSE IF fault.at = 3 THEN Result(Failed(self, del, fault), FALSE)
        ELSE Result(Committed(del), rowcount > 0)

\* add_mistake that stores the priority as given.
add_mistake_asgiven(self, user, description, priority, now, fault) ==
    LET lastrowid == self.conn.sqlite_sequence.mistakes + 1
        row == [user |-> user, description |-> description, date |-> now,
                priority |-> priority, closed |-> 0]
        ins == [self.conn EXCEPT
                   !.mistakes = [i \in DOMAIN @ \cup {lastrowid} |->
                                    IF i = lastrowid THEN row ELSE @[i]],
                   !.sqlite_sequence.mistakes = lastrowid]
    IN  IF fault.at = 1 THEN Result(Failed(self, self.conn, fault), <<>>)
        ELSE IF fault.at = 2 THEN Result(Failed(self, ins, fault), <<>>)
        ELSE Result(Committed(ins), <<lastrowid>>)

\* add_mistake on a mistakes table declared without AUTOINCREMENT: the new id
\* is one more than the largest id still stored.
add_mistake_rowid(self, user, description, priority, now, fault) ==
    LET p == IF priority \notin {1, 2} THEN 1 ELSE priority
        stored == DOMAIN self.conn.mistakes
        lastrowid == IF stored = {} THEN 1
                     ELSE (CHOOSE m \in stored : \A i \in stored : i <= m) + 1
        row == [user |-> user, description |-> description, date |-> now,
                priority |-> p, closed |-> 0]
        ins == [self.conn EXCEPT
                   !.mistakes = [i \in DOMAIN @ \cup {lastrowid} |->
                                    IF i = lastrowid THEN row ELSE @[i]],
                   !.sqlite_sequence.mistakes = @ + 1]
    IN  IF fault.at = 1 THEN Result(Failed(self, self.conn, fault), <<>>)
        ELSE IF fault.at = 2 THEN Result(Failed(self, ins, fault), <<>>)
        ELSE Result(Committed(ins), <<lastrowid>>)

add_mistake(self, user, description, priority, now, fault) ==
    LET p == IF priority \notin {1, 2} THEN 1 ELSE priority
        lastrowid == self.conn.sqlite_sequence.mistakes + 1
        row == [user |-> user, description |-> description, date |-> now,
                priority |-> p, closed |-> 0]
        ins == [self.conn EXCEPT
                   !.mistakes = [i \in DOMAIN @ \cup {lastrowid} |->
                                    IF i = lastrowid THEN row ELSE @[i]],
                   !.sqlite_sequence.mistakes = lastrowid]
    IN  IF fault.at = 1 THEN Result(Failed(self, self.conn, fault), <<>>)
        ELSE IF fault.at = 2 THEN Result(Failed(self, ins, fault), <<>>)
        ELSE Result(Committed(ins), <<lastrowid>>)

mistake_exists(self, mistake_id, fault) ==
    IF fault.at = 1 THEN Raised(Failed(self, self.conn, fault))
    ELSE Result(self, Cardinality({i \in DOMAIN self.conn.mistakes : i = mistake_id}) > 0)

\* close_mistake that reports cursor.rowcount > 0.
close_mistake_rowcount(self, mistake_id, fault) ==
    LET upd == [self.conn EXCEPT
                   !.mistakes = [i \in DOMAIN @ |->
                                    IF i = mistake_id
                                    THEN [@[i] EXCEPT !.closed = 1]
                                    ELSE @[i]]]
    IN  IF fault.at = 1 THEN Result(Failed(self, self.conn, fault), FALSE)
        ELSE IF fault.at = 2 THEN Result(Failed(self, upd, fault), FALSE)
        ELSE Result(Committed(upd), mistake_id \in DOMAIN self.conn.mistakes)

\* close_mistake whose UPDATE has no WHERE clause.
close_mistake_all(self, mistake_id, fault) ==
    LET upd == [self.conn EXCEPT
                   !.mistakes = [i \in DOMAIN @ |-> [@[i] EXCEPT !.closed = 1]]]
    IN  IF fault.at = 1 THEN Result(Failed(self, self.conn, fault), FALSE)
        ELSE IF fault.at = 2 THEN Result(Failed(self, upd, fault), FALSE)
        ELSE Result(Committed(upd), TRUE)

\* close_mistake that flips the flag (SET closed = 1 - closed).
close_mistake_toggle(self, mistake_id, fault) ==
    LET upd == [self.conn EXCEPT
                   !.mistakes = [i \in DOMAIN @ |->
                                    IF i = mistake_id
                                    THEN [@[i] EXCEPT !.closed = 1 - @]
                                    ELSE @[i]]]
    IN  IF fault.at = 1 THEN Result(Failed(self, self.conn, fault), FALSE)
        ELSE IF fault.at = 2 THEN Result(Failed(self, upd, fault), FALSE)
        ELSE Result(Committed(upd), TRUE)

close_mistake(self, mistake_id, fault) ==
    LET upd == [self.conn EXCEPT
                   !.mistakes = [i \in DOMAIN @ |->
                                    IF i = mistake_id
                                    THEN [@[i] EXCEPT !.closed = 1]
                                    ELSE @[i]]]
    IN  IF fault.at = 1 THEN Result(Failed(self, self.conn, fault), FALSE)
        ELSE IF fault.at = 2 THEN Result(Failed(self, upd, fault), FALSE)
        ELSE Result(Committed(upd), TRUE)

add_comment(self, mistake_id, user_id, text, now, fault) ==
    LET lastrowid == self.conn.sqlite_sequence.comments + 1
        row == [mistake_id |-> mistake_id, user_id |-> user_id,
                text |-> text, date |-> now]
        ins == [self.conn EXCEPT
                   !.comments = [i \in DOMAIN @ \cup {lastrowid} |->
                                    IF i = lastrowid THEN row ELSE @[i]],
                   !.sqlite_sequence.comments = lastrowid]
    IN  IF fault.at = 1 THEN Result(Failed(self, self.conn, fault), FALSE)
        ELSE IF fault.at = 2 THEN Result(Failed(self, ins, fault), FALSE)
        ELSE Result(Committed(ins), TRUE)

\* clear_mistakes without the DELETE FROM comments.
clear_mistakes_keepcomments(self, fault) ==
    LET del2 == [self.conn EXCEPT !.mistakes = EmptyTable]
    IN  IF fault.at \in {1, 2} THEN Result(Failed(self, self.conn, fault), FALSE)
        ELSE IF fault.at = 3 THEN Result(Failed(self, del2, fault), FALSE)
        ELSE Result(Committed(del2), TRUE)

clear_mistakes(self, fault) ==
    LET del1 == [self.conn EXCEPT !.comments = EmptyTable]
        del2 == [del1 EXCEPT !.mistakes = EmptyTable]
    IN  IF fault.at = 1 THEN Result(Failed(self, self.conn, fault), FALSE)
        ELSE IF fault.at = 2 THEN Result(Failed(self, del1, fault), FALSE)
        ELSE IF fault.at = 3 THEN Result(Failed(self, del2, fault), FALSE)
        ELSE Result(Committed(del2), TRUE)

(***************************************************************************)
(* search_mistakes.  SQLite's LIKE: % matches any run of characters, _ any *)
(* one character, every other character itself, ASCII letters without      *)
(* regard to case.                                                         *)
(***************************************************************************)
Lower(c) ==
    CASE c = "A" -> "a"
      [] c = "B" -> "b"
      [] OTHER -> c

RECURSIVE Like(_, _)
Like(pattern, s) ==
    IF pattern = <<>> THEN s = <<>>
    ELSE IF Head(pattern) = "%"
         THEN Like(Tail(pattern), s) \/ (s # <<>> /\ Like(pattern, Tail(s)))
         ELSE /\ s # <<>>
              /\ Head(pattern) = "_" \/ Lower(Head(pattern)) = Lower(Head(s))
              /\ Like(Tail(pattern), Tail(s))

DigitValue(c) ==
    CASE c = "0" -> 0 [] c = "1" -> 1 [] c = "2" -> 2 [] c = "3" -> 3
      [] c = "4" -> 4 [] c = "5" -> 5 [] c = "6" -> 6 [] c = "7" -> 7
      [] c = "8" -> 8 [] c = "9" -> 9

isdigit(text) ==
    /\ text # <<>>
    /\ \A k \in 1..Len(text) :
          text[k] \in {"0", "1", "2", "3", "4", "5", "6", "7", "8", "9"}

\* The integer SQLite compares the id column with when handed digits as text.
RECURSIVE IntegerOf(_)
IntegerOf(text) ==
    IF text = <<>> THEN 0
    ELSE 10 * IntegerOf(SubSeq(text, 1, Len(text) - 1)) + DigitValue(text[Len(text)])

\* WHERE clause of search_mistakes for the row with the given id.
Where(conn, params, id) ==
    LET row == conn.mistakes[id]
    IN  /\ "user" \in DOMAIN params =>
              Like(<<"%">> \o Chars(params.user) \o <<"%">>, Chars(row.user))
        /\ "status" \in DOMAIN params =>
              row.closed = (IF params.status = "closed" THEN 1 ELSE 0)
        /\ "priority" \in DOMAIN params => row.priority = params.priority
        /\ "text" \in DOMAIN params =>
              \/ Like(<<"%">> \o Chars(params.text) \o <<"%">>, Chars(row.description))
              \/ id = (IF isdigit(Chars(params.text))
                       THEN IntegerOf(Chars(params.text)) ELSE 0 - 1)

\* ORDER BY date DESC; rows of equal date come in an order SQLite does not
\* promise: tie picks ascending or descending id.
ComesBefore(conn, a, b, tie) ==
    \/ conn.mistakes[a].date > conn.mistakes[b].date
    \/ /\ conn.mistakes[a].date = conn.mistakes[b].date
       /\ IF tie = "asc" THEN a < b ELSE a > b

OrderByDate(conn, params, tie) ==
    LET ids == [i \in 1..conn.sqlite_sequence.mistakes |-> i]
        selected(i) == i \in DOMAIN conn.mistakes /\ Where(conn, params, i)
        before(a, b) == ComesBefore(conn, a, b, tie)
    IN  SortSeq(SelectSeq(ids, selected), before)

SearchLimit == 50

\* dict(row) of SELECT * FROM mistakes
RowDict(conn, id) ==
    [id |-> id,
     user |-> conn.mistakes[id].user,
     description |-> conn.mistakes[id].description,
     date |-> conn.mistakes[id].date,
     priority |-> conn.mistakes[id].priority,
     closed |-> conn.mistakes[id].closed]

search_mistakes(self, params, tie, fault) ==
    LET ordered == OrderByDate(self.conn, params, tie)
        n == IF Len(ordered) > SearchLimit THEN SearchLimit ELSE Len(ordered)
    IN  IF fault.at = 1 THEN Raised(Failed(self, self.conn, fault))
        ELSE Result(self, [k \in 1..n |-> RowDict(self.conn, ordered[k])])

(***************************************************************************)
(* Handler invocations.  The dispatcher runs each handler as a coroutine   *)
(* of one event loop; `inflight` holds, for each, where it stands: the     *)
(* handler, the event, the position in its code (idle when it is not in    *)
(* flight) and the locals it carries from its check to its write.          *)
(***************************************************************************)
Tasks == {"t1", "t2"}

Idle == [user |-> "", description |-> "", priority |-> 0, mistake_id |-> 0,
         op |-> "idle", pc |-> "idle", event |-> <<>>, comment |-> <<>>]

(***************************************************************************)
(* One action per repository call on the handle.  `last` records the call  *)
(* and what it returned (changed: whether the call altered the handle's    *)
(* tables or the file); `issued` the ids add_mistake has returned so far.  *)
(***************************************************************************)
Return(op, args, r) ==
    /\ db' = r.self
    /\ last' = [op |-> op, args |-> args, ret |-> r.ret, raised |-> r.raised,
                changed |-> r.self # db]
    /\ UNCHANGED inflight

CallGetUsers(fault) ==
    /\ Return("get_users", [none |-> TRUE], get_users(db, fault))
    /\ UNCHANGED issued

CallAddUser(name, fault) ==
    /\ Return("add_user", [name |-> name], add_user(db, name, fault))
    /\ UNCHANGED issued

CallDeleteUser(name, fault) ==
    /\ Return("delete_user", [name |-> name], delete_user(db, name, fault))
    /\ UNCHANGED issued

CallAddMistake(user, description, priority, now, fault) ==
    LET r == add_mistake(db, user, description, priority, now, fault)
    IN  /\ db.conn.sqlite_sequence.mistakes < MaxId
        /\ Return("add_mistake",
                  [user |-> user, description |-> description,
                   priority |-> priority, now |-> now], r)
        /\ issued' = issued \cup {r.ret[k] : k \in 1..Len(r.ret)}

CallMistakeExists(mistake_id, fault) ==
    /\ Return("mistake_exists", [mistake_id |-> mistake_id],
              mistake_exists(db, mistake_id, fault))
    /\ UNCHANGED issued

CallCloseMistake(mistake_id, fault) ==
    /\ Return("close_mistake", [mistake_id |-> mistake_id],
              close_mistake(db, mistake_id, fault))
    /\ UNCHANGED issued

CallAddComment(mistake_id, user_id, text, now, fault) ==
    /\ db.conn.sqlite_sequence.comments < MaxComments
    /\ Return("add_comment",
              [mistake_id |-> mistake_id, user_id |-> user_id, text |-> text,
               now |-> now],
              add_comment(db, mistake_id, user_id, text, now, fault))
    /\ UNCHANGED issued

CallClearMistakes(fault) ==
    /\ Return("clear_mistakes", [none |-> TRUE], clear_mistakes(db, fault))
    /\ UNCHANGED issued

CallSearchMistakes(params, tie, fault) ==
    /\ Return("search_mistakes", [params |-> params, tie |-> tie],
              search_mistakes(db, params, tie, fault))
    /\ UNCHANGED issued

Init ==
    /\ db = Database
    /\ last = [op |-> "__init__", args |-> [none |-> TRUE], ret |-> FALSE,
               raised |-> FALSE, changed |-> FALSE]
    /\ issued = {}
    /\ inflight = [t \in Tasks |-> Idle]

\* Every store call succeeds.
Next ==
    \/ CallGetUsers(NoFault)
    \/ \E name \in Names : CallAddUser(name, NoFault)
    \/ \E name \in Names : CallDeleteUser(name, NoFault)
    \/ \E user \in Names, description \in Descriptions,
          priority \in RequestedPriorities, now \in Times :
            CallAddMistake(user, description, priority, now, NoFault)
    \/ \E mistake_id \in Ids : CallMistakeExists(mistake_id, NoFault)
    \/ \E mistake_id \in Ids : CallCloseMistake(mistake_id, NoFault)
    \/ \E mistake_id \in CommentedIds, user_id \in UserIds, text \in Texts, now \in Times :
            CallAddComment(mistake_id, user_id, text, now, NoFault)
    \/ CallClearMistakes(NoFault)

Spec == Init /\ [][Next]_vars

\* Any store call may raise sqlite3.Error.
NextFault ==
    \/ \E fault \in Faults(1) : CallGetUsers(fault)
    \/ \E name \in FaultNames, fault \in Faults(2) : CallAddUser(name, fault)
    \/ \E name \in FaultNames, fault \in Faults(3) : CallDeleteUser(name, fault)
    \/ \E user \in FaultNames, description \in Descriptions,
          priority \in FaultPriorities, now \in Times, fault \in Faults(2) :
            CallAddMistake(user, description, priority, now, fault)
    \/ \E mistake_id \in Ids, fault \in Faults(1) : CallMistakeExists(mistake_id, fault)
    \/ \E mistake_id \in Ids, fault \in Faults(2) : CallCloseMistake(mistake_id, fault)
    \/ \E mistake_id \in CommentedIds, user_id \in UserIds, text \in Texts, now \in Times,
          fault \in Faults(2) :
            CallAddComment(mistake_id, user_id, text, now, fault)
    \/ \E fault \in Faults(3) : CallClearMistakes(fault)

SpecFault == Init /\ [][NextFault]_vars

(***************************************************************************)
(* Search over a given store.  The mistakes table is drawn from tables the *)
(* repository can build with add_mistake and close_mistake: every table of *)
(* at most one row, and tables of up to SearchLimit + MaxOver rows whose   *)
(* rows vary with their id.  The clock that stamps the rows runs forward   *)
(* (clock 0), stands still over two inserts (1), or was set back (2).      *)
(***************************************************************************)
MaxOver == 2
MaxSmall == 3

SearchSizes == 2..MaxSmall \cup (SearchLimit - 1)..(SearchLimit + MaxOver)

Clocks == {0, 1, 2}

PatternRow(i, n, clock) ==
    [user |-> IF i % 2 = 0 THEN "ab" ELSE "ba",
     description |-> IF i % 3 = 0 THEN "a7" ELSE "b_",
     date |-> CASE clock = 0 -> i
                [] clock = 1 -> (i + 1) \div 2
                [] clock = 2 -> n + 1 - i,
     priority |-> IF (i \div 2) % 2 = 0 THEN NORMAL ELSE CRITICAL,
     closed |-> IF (i \div 3) % 2 = 0 THEN 1 ELSE 0]

SearchTables ==
    {EmptyTable}
    \cup {[i \in {1} |-> row] :
            row \in [user : SearchUsers, description : SearchDescriptions,
                     date : {1}, priority : {NORMAL, CRITICAL}, closed : {0, 1}]}
    \cup {[i \in 1..n |-> PatternRow(i, n, clock)] : n \in SearchSizes, clock \in Clocks}

SearchParams ==
    {[k \in keys |-> full[k]] :
        keys \in SUBSET {"user", "status", "priority", "text"},
        full \in [user : UserFilters, status : StatusFilters,
                  priority : PriorityFilters, text : TextFilters]}

InitSearch ==
    /\ \E table \in SearchTables :
          LET n == Cardinality(DOMAIN table)
          IN  /\ db = Committed([create_tables EXCEPT
                                    !.mistakes = table,
                                    !.sqlite_sequence.mistakes = n])
              /\ issued = 1..n
    /\ last = [op |-> "__init__", args |-> [none |-> TRUE], ret |-> FALSE,
               raised |-> FALSE, changed |-> FALSE]
    /\ inflight = [t \in Tasks |-> Idle]

\* One search of the store drawn.
NextSearch ==
    /\ last.op = "__init__"
    /\ \E params \in SearchParams, tie \in {"asc", "desc"} :
          CallSearchMistakes(params, tie, NoFault)

SpecSearch == InitSearch /\ [][NextSearch]_vars

(***************************************************************************)
(* Properties of the repository.  Tables are read through the handle       *)
(* (db.conn), as every method of Database reads them.                      *)
(***************************************************************************)
Staff(conn) == {n \in Names : conn.users[n] > 0}

OpenOf(conn, name) ==
    {i \in DOMAIN conn.mistakes :
        conn.mistakes[i].user = name /\ conn.mistakes[i].closed = 0}

\* The fields of an incident that no operation may touch after creation.
SameIdentity(a, b) ==
    /\ a.user = b.user
    /\ a.description = b.description
    /\ a.date = b.date
    /\ a.priority = b.priority

\* What C1 says of one call, and of one state.
C1_AddUserStep ==
    last'.op = "add_user" =>
        LET name == last'.args.name
        IN  /\ name \notin Staff(db.conn) =>
                /\ last'.ret = TRUE
                /\ Staff(db'.conn) = Staff(db.conn) \cup {name}
            /\ name \in Staff(db.conn) =>
                /\ last'.ret = FALSE
                /\ db'.conn.users = db.conn.users
            /\ (last.op = "add_user" /\ last.args.name = name /\ last.ret = TRUE) =>
                last'.ret = FALSE

C1_ListedOnce ==
    /\ \A n \in Names : db.conn.users[n] <= 1
    /\ last.op = "get_users" =>
          \A n \in Names :
             Cardinality({k \in 1..Len(last.ret) : last.ret[k] = n})
                = (IF n \in Staff(db.conn) THEN 1 ELSE 0)

\* C1: add_user(name) returns True and inserts the name when it is not yet a
\* staff member, and returns False leaving the staff rows unchanged when it is;
\* so no name is ever held by more than one row (get_users lists it once), and
\* an add_user of the same name right after a successful one returns False.
C1_AddUser == [](C1_ListedOnce) /\ [][C1_AddUserStep]_vars

C1_Witness ==
    /\ last.op = "add_user"
    /\ last.ret = FALSE
    /\ last.args.name \in Staff(db.conn)

\* What C2 says of one call.
C2_DeleteUserStep ==
    last'.op = "delete_user" =>
        LET name == last'.args.name
            deletable == name \in Staff(db.conn) /\ OpenOf(db.conn, name) = {}
        IN  /\ last'.ret = deletable
            /\ db'.conn.mistakes = db.conn.mistakes
            /\ db'.conn.comments = db.conn.comments
            /\ deletable => Staff(db'.conn) = Staff(db.conn) \ {name}
            /\ ~deletable =>
                /\ db'.conn.users = db.conn.users
                /\ name \in Staff(db.conn) => name \in Staff(db'.conn)

\* C2: delete_user(name) returns True exactly when name is a staff member
\* owning no incident with closed = 0; on True the member is removed, on False
\* staff, incidents and comments are unchanged and a blocked member remains.
C2_DeleteUser == [][C2_DeleteUserStep]_vars

C2_Witness ==
    /\ last.op = "delete_user"
    /\ last.ret = FALSE
    /\ last.args.name \in Staff(db.conn)
    /\ OpenOf(db.conn, last.args.name) # {}

\* What C3 says of one state, and of one call.
C3_PriorityRange ==
    \A i \in DOMAIN db.conn.mistakes : db.conn.mistakes[i].priority \in {NORMAL, CRITICAL}

C3_PriorityStep ==
    /\ (last'.op = "add_mistake" /\ last'.ret # <<>>) =>
          db'.conn.mistakes[last'.ret[1]].priority
             = (IF last'.args.priority = 2 THEN CRITICAL ELSE NORMAL)
    /\ \A i \in DOMAIN db.conn.mistakes \cap DOMAIN db'.conn.mistakes :
          db'.conn.mistakes[i].priority = db.conn.mistakes[i].priority

\* C3: every stored incident has priority 1 or 2: add_mistake stores 2 when
\* called with 2 and 1 for every other requested value, and no operation
\* changes the priority of a stored incident.
C3_Priority == [](C3_PriorityRange) /\ [][C3_PriorityStep]_vars

C3_Witness ==
    /\ last.op = "add_mistake"
    /\ last.args.priority = 3
    /\ last.ret # <<>>
    /\ db.conn.mistakes[last.ret[1]].priority = NORMAL

\* C4 (as stated): close_mistake(id) with an id no stored incident has
\* reports failure: it returns False.
C4_Original ==
    (last.op = "close_mistake" /\ last.args.mistake_id \notin DOMAIN db.conn.mistakes) =>
        last.ret = FALSE

\* What the amended C4 says of one call.
C4_CloseUnknownStep ==
    (last'.op = "close_mistake" /\ last'.args.mistake_id \notin DOMAIN db.conn.mistakes) =>
        /\ last'.ret = TRUE
        /\ db'.conn = db.conn

\* C4 (amended): close_mistake(id) with an id no stored incident has returns
\* True and changes no staff member, incident or comment.
C4_CloseUnknown == [][C4_CloseUnknownStep]_vars

C4_Witness ==
    /\ last.op = "close_mistake"
    /\ last.args.mistake_id \notin DOMAIN db.conn.mistakes
    /\ last.ret = TRUE
    /\ ~last.changed

\* What C5 says of one call.
C5_CloseStep ==
    last'.op = "close_mistake" =>
        LET id == last'.args.mistake_id
        IN  /\ db'.conn.users = db.conn.users
            /\ db'.conn.comments = db.conn.comments
            /\ db'.conn.sqlite_sequence = db.conn.sqlite_sequence
            /\ DOMAIN db'.conn.mistakes = DOMAIN db.conn.mistakes
            /\ \A i \in DOMAIN db.conn.mistakes :
                  /\ SameIdentity(db'.conn.mistakes[i], db.conn.mistakes[i])
                  /\ i # id => db'.conn.mistakes[i].closed = db.conn.mistakes[i].closed
            /\ id \in DOMAIN db.conn.mistakes =>
                  /\ last'.ret = TRUE
                  /\ db'.conn.mistakes[id].closed = 1
                  /\ db.conn.mistakes[id].closed = 1 => db' = db

\* C5: close_mistake(id) on an existing incident returns True and leaves it
\* closed; on an already closed incident it returns True and leaves the whole
\* store as it was.  A close changes nothing but the closed flag of the
\* incident with that id.
C5_Close == [][C5_CloseStep]_vars

C5_Witness ==
    /\ last.op = "close_mistake"
    /\ last.args.mistake_id \in DOMAIN db.conn.mistakes
    /\ last.ret = TRUE
    /\ ~last.changed
    /\ db.conn.mistakes[last.args.mistake_id].closed = 1

\* What C6 says of one call.
C6_LifecycleStep ==
    /\ (last'.op = "add_mistake" /\ last'.ret # <<>>) =>
          /\ last'.ret[1] \notin DOMAIN db.conn.mistakes
          /\ db'.conn.mistakes[last'.ret[1]].closed = 0
    /\ \A i \in DOMAIN db.conn.mistakes \cap DOMAIN db'.conn.mistakes :
          /\ db.conn.mistakes[i].closed = 1 => db'.conn.mistakes[i].closed = 1
          /\ SameIdentity(db'.conn.mistakes[i], db.conn.mistakes[i])
    /\ DOMAIN db.conn.mistakes \ DOMAIN db'.conn.mistakes # {} =>
          last'.op = "clear_mistakes"

\* C6: an incident is created with closed = 0; once closed it stays closed
\* while it exists; its owner, description, date and priority never change;
\* and only clear_mistakes makes an incident stop existing.
C6_Lifecycle == [][C6_LifecycleStep]_vars

C6_Witness ==
    /\ last.op = "close_mistake"
    /\ last.changed
    /\ \E i \in DOMAIN db.conn.mistakes :
          i # last.args.mistake_id /\ db.conn.mistakes[i].closed = 1

\* What C7 says of one call.
C7_FreshIdStep ==
    (last'.op = "add_mistake" /\ last'.ret # <<>>) =>
        \A j \in issued : last'.ret[1] > j

\* C7: the id a successful add_mistake returns is greater than every id
\* returned before it, also when clear_mistakes removed the earlier incidents.
C7_FreshId == [][C7_FreshIdStep]_vars

C7_Witness ==
    /\ last.op = "add_mistake"
    /\ last.ret # <<>>
    /\ last.ret[1] > 1
    /\ DOMAIN db.conn.mistakes = {last.ret[1]}

\* What C8 says of one call.
C8_ClearStep ==
    last'.op = "clear_mistakes" =>
        /\ last'.ret = TRUE
        /\ DOMAIN db'.conn.mistakes = {}
        /\ DOMAIN db'.conn.comments = {}
        /\ db'.conn.users = db.conn.users

\* C8: a clear_mistakes that returns True leaves no incident and no comment
\* and the staff rows as they were; it returns True also when there was
\* nothing to delete.
C8_Clear == [][C8_ClearStep]_vars

C8_Witness ==
    /\ last.op = "clear_mistakes"
    /\ last.ret = TRUE
    /\ last.changed
    /\ Staff(db.conn) # {}
    /\ db.conn.sqlite_sequence.mistakes > 0
    /\ db.conn.sqlite_sequence.comments > 0

\* What C9 says of one call.
C9_AllOrNothingStep ==
    DOMAIN db.file.comments \ DOMAIN db'.file.comments # {} =>
        /\ last'.op = "clear_mistakes"
        /\ last'.ret = TRUE
        /\ DOMAIN db'.file.mistakes = {}

\* C9: every write is all-or-nothing: a comment that was committed leaves the
\* committed store only through a clear_mistakes that returns True, never
\* through the pending half of a clear_mistakes that returned False.
C9_AllOrNothing == [][C9_AllOrNothingStep]_vars

\* x occurs in s as a run of consecutive characters.
Contains(x, s) ==
    \E k \in 0..(Len(s) - Len(x)) : SubSeq(s, k + 1, k + Len(x)) = x

\* The filters as C10 reads them: user and text by substring, a numeric text
\* also by id.
Satisfies(conn, params, id) ==
    LET row == conn.mistakes[id]
    IN  /\ "user" \in DOMAIN params => Contains(Chars(params.user), Chars(row.user))
        /\ "status" \in DOMAIN params => (row.closed = 1) = (params.status = "closed")
        /\ "priority" \in DOMAIN params => row.priority = params.priority
        /\ "text" \in DOMAIN params =>
              \/ Contains(Chars(params.text), Chars(row.description))
              \/ isdigit(Chars(params.text)) /\ id = IntegerOf(Chars(params.text))

\* res lists, newest first, the SearchLimit newest of the incidents in want.
NewestFirst(conn, res, want) ==
    LET listed == {res[k].id : k \in 1..Len(res)}
    IN  /\ Len(res) = (IF Cardinality(want) > SearchLimit THEN SearchLimit
                       ELSE Cardinality(want))
        /\ listed \subseteq want
        /\ Cardinality(listed) = Len(res)
        /\ \A k \in 1..Len(res) : res[k] = RowDict(conn, res[k].id)
        /\ \A k \in 1..Len(res) : \A l \in (k + 1)..Len(res) : res[k].date >= res[l].date
        /\ \A i \in want \ listed : \A k \in 1..Len(res) :
              conn.mistakes[i].date <= res[k].date

\* C10: search returns exactly the incidents that satisfy every filter present
\* (user substring, status, exact priority, text), all incidents when no filter
\* is present, newest first and cut to the first SearchLimit rows.
C10_Search ==
    last.op = "search_mistakes" =>
        NewestFirst(db.conn, last.ret,
                    {i \in DOMAIN db.conn.mistakes : Satisfies(db.conn, last.args.params, i)})

\* The ids a search returned.
Listed(res) == {res[k].id : k \in 1..Len(res)}

\* The text filter as C11 reads it: the description contains the text, or the
\* text is all digits and the id is that number.
TextMatches(conn, text, id) ==
    \/ Contains(Chars(text), Chars(conn.mistakes[id].description))
    \/ isdigit(Chars(text)) /\ id = IntegerOf(Chars(text))

\* C11: a search with only a text filter returns an incident only if its
\* description contains the text or, the text being all digits, its id is that
\* number; and returns every such incident when there are at most SearchLimit.
C11_TextFilter ==
    (last.op = "search_mistakes" /\ DOMAIN last.args.params = {"text"}) =>
        LET want == {i \in DOMAIN db.conn.mistakes :
                        TextMatches(db.conn, last.args.params.text, i)}
        IN  /\ Listed(last.ret) \subseteq want
            /\ Cardinality(want) <= SearchLimit => want \subseteq Listed(last.ret)

(***************************************************************************)
(* Aggregations.  A value that may be NULL (None) is a sequence of at most *)
(* one element, as the Optional[int] of add_mistake is: NULL is <<>> and   *)
(* the integer n is <<n>>.                                                 *)
(***************************************************************************)
NULL == <<>>

\* Python's `x or 0` on the value of a count column.
OrZero(x) == IF x = NULL \/ x = <<0>> THEN <<0>> ELSE x

\* COUNT(*) over rows, and SUM(CASE WHEN c THEN 1 ELSE 0 END) over rows, ones
\* being the rows where c holds: SUM over no row is NULL.
COUNT(rows) == <<Cardinality(rows)>>

SUM(rows, ones) == IF rows = {} THEN NULL ELSE <<Cardinality(rows \cap ones)>>

\* Owners of incidents, in the order SQLite's ORDER BY gives them: the staff
\* names, then names that never were or no longer are staff.
OwnerOrder == NameOrder \o <<"u c", "u d", "u e", "u f", "u g">>
Owners == {OwnerOrder[k] : k \in 1..Len(OwnerOrder)}

OpenRows(conn) == {i \in DOMAIN conn.mistakes : conn.mistakes[i].closed = 0}
ClosedRows(conn) == {i \in DOMAIN conn.mistakes : conn.mistakes[i].closed = 1}
PriorityRows(conn, p) == {i \in DOMAIN conn.mistakes : conn.mistakes[i].priority = p}
UserRows(conn, user) == {i \in DOMAIN conn.mistakes : conn.mistakes[i].user = user}

\* One row of get_users_stats.  users LEFT JOIN mistakes gives a member with
\* no incident one row whose mistakes columns are NULL: the CASE takes its
\* ELSE 0 on it and COUNT(m.id) skips it.
UsersStatsRow(conn, name) ==
    LET joined == IF UserRows(conn, name) = {} THEN {NULL}
                  ELSE {<<i>> : i \in UserRows(conn, name)}
    IN  <<name,
          SUM(joined, {<<i>> : i \in OpenRows(conn)}),
          SUM(joined, {<<i>> : i \in ClosedRows(conn)}),
          COUNT(joined \ {NULL})>>

RECURSIVE UsersStatsRows(_, _)
UsersStatsRows(conn, k) ==
    IF k > Len(NameOrder) THEN <<>>
    ELSE (IF conn.users[NameOrder[k]] > 0
          THEN <<UsersStatsRow(conn, NameOrder[k])>> ELSE <<>>)
         \o UsersStatsRows(conn, k + 1)

\* get_users_stats whose SUMs have no ELSE 0 (CASE WHEN ... THEN 1 END).
get_users_stats_noelse(self, fault) ==
    LET conn == self.conn
        row(name) ==
            LET hits(rows) == IF UserRows(conn, name) \cap rows = {} THEN NULL
                              ELSE COUNT(UserRows(conn, name) \cap rows)
            IN  <<name, hits(OpenRows(conn)), hits(ClosedRows(conn)),
                  COUNT(UserRows(conn, name))>>
        names == SelectNames(conn, 1)
    IN  IF fault.at = 1 THEN Raised(Failed(self, self.conn, fault))
        ELSE Result(self, [k \in 1..Len(names) |-> row(names[k])])

get_users_stats(self, fault) ==
    IF fault.at = 1 THEN Raised(Failed(self, self.conn, fault))
    ELSE Result(self, UsersStatsRows(self.conn, 1))

\* get_mistake_stats: a dict keyed by owner and by staff name.
get_mistake_stats(self, fault) ==
    LET conn == self.conn
        grouped == {u \in Owners : UserRows(conn, u) # {}}
        stats(u) ==
            IF u \in grouped
            THEN [total |-> OrZero(COUNT(UserRows(conn, u))),
                  active |-> OrZero(SUM(UserRows(conn, u), OpenRows(conn))),
                  closed |-> OrZero(SUM(UserRows(conn, u), ClosedRows(conn)))]
            ELSE [total |-> <<0>>, active |-> <<0>>, closed |-> <<0>>]
    IN  IF fault.at \in {1, 2} THEN Raised(Failed(self, self.conn, fault))
        ELSE Result(self, [u \in grouped \cup UserSet(conn) |-> stats(u)])

\* get_priority_stats: the dict starts with both labels at 0 and takes the
\* count of every priority group whose label is not NULL.
get_priority_stats(self, fault) ==
    LET conn == self.conn
        count(p) == IF PriorityRows(conn, p) = {} THEN <<0>>
                    ELSE COUNT(PriorityRows(conn, p))
    IN  IF fault.at = 1 THEN Raised(Failed(self, self.conn, fault))
        ELSE Result(self, [Obychnyj |-> count(1), Kriticheskij |-> count(2)])

get_status_stats(self, fault) ==
    LET conn == self.conn
        rows == DOMAIN conn.mistakes
    IN  IF fault.at = 1 THEN Raised(Failed(self, self.conn, fault))
        ELSE Result(self, [total |-> OrZero(COUNT(rows)),
                           active |-> OrZero(SUM(rows, OpenRows(conn))),
                           closed |-> OrZero(SUM(rows, ClosedRows(conn)))])

\* The six counts get_period_stats and get_all_stats take over rows.
Counts(conn, rows) ==
    [total |-> OrZero(COUNT(rows)),
     active |-> OrZero(SUM(rows, OpenRows(conn))),
     closed |-> OrZero(SUM(rows, ClosedRows(conn))),
     priority_1 |-> OrZero(SUM(rows, PriorityRows(conn, 1))),
     priority_2 |-> OrZero(SUM(rows, PriorityRows(conn, 2))),
     priority_3 |-> OrZero(SUM(rows, PriorityRows(conn, 3)))]

TopLimit == 5

\* GROUP BY user ORDER BY count DESC; users of equal count come in an order
\* SQLite does not promise: tie picks ascending or descending name.
Ranking(conn, rows, tie) ==
    LET count(k) == Cardinality(UserRows(conn, OwnerOrder[k]) \cap rows)
        ks == [k \in 1..Len(OwnerOrder) |-> k]
        grouped(k) == count(k) > 0
        before(a, b) == \/ count(a) > count(b)
                        \/ count(a) = count(b) /\ (IF tie = "asc" THEN a < b ELSE a > b)
        ordered == SortSeq(SelectSeq(ks, grouped), before)
    IN  [k \in 1..Len(ordered) |-> <<OwnerOrder[ordered[k]], count(ordered[k])>>]

\* The same query without LIMIT 5.
TopUsers_nolimit(conn, rows, tie) == Ranking(conn, rows, tie)

TopUsers(conn, rows, tie) ==
    LET ranking == Ranking(conn, rows, tie)
    IN  SubSeq(ranking, 1, IF Len(ranking) > TopLimit THEN TopLimit ELSE Len(ranking))

\* stats['top_users'] = cursor.fetchall()
WithTopUsers(stats, top_users) ==
    [k \in DOMAIN stats \cup {"top_users"} |->
        IF k = "top_users" THEN top_users ELSE stats[k]]

\* datetime('now', '-N days'): the store's clock, in seconds.
Day == 86400

Window(conn, now, days) ==
    {i \in DOMAIN conn.mistakes : conn.mistakes[i].date >= now - days * Day}

\* get_period_stats reads the clock once in each of its two SELECTs: now for
\* the counts, and now + tick, tick seconds later, for the ranking.
get_period_stats(self, days, now, tick, tie, fault) ==
    LET conn == self.conn
        stats == Counts(conn, Window(conn, now, days))
        top_users == TopUsers(conn, Window(conn, now + tick, days), tie)
    IN  IF fault.at \in {1, 2} THEN Raised(Failed(self, self.conn, fault))
        ELSE Result(self, WithTopUsers(stats, top_users))

get_all_stats(self, tie, fault) ==
    LET conn == self.conn
        stats == Counts(conn, DOMAIN conn.mistakes)
        top_users == TopUsers(conn, DOMAIN conn.mistakes, tie)
    IN  IF fault.at \in {1, 2} THEN Raised(Failed(self, self.conn, fault))
        ELSE Result(self, WithTopUsers(stats, top_users))

CallGetUsersStats(fault) ==
    /\ Return("get_users_stats", [none |-> TRUE], get_users_stats(db, fault))
    /\ UNCHANGED issued

CallGetMistakeStats(fault) ==
    /\ Return("get_mistake_stats", [none |-> TRUE], get_mistake_stats(db, fault))
    /\ UNCHANGED issued

CallGetPriorityStats(fault) ==
    /\ Return("get_priority_stats", [none |-> TRUE], get_priority_stats(db, fault))
    /\ UNCHANGED issued

CallGetStatusStats(fault) ==
    /\ Return("get_status_stats", [none |-> TRUE], get_status_stats(db, fault))
    /\ UNCHANGED issued

CallGetPeriodStats(days, now, tick, tie, fault) ==
    /\ Return("get_period_stats",
              [days |-> days, now |-> now, tick |-> tick, tie |-> tie],
              get_period_stats(db, days, now, tick, tie, fault))
    /\ UNCHANGED issued

CallGetAllStats(tie, fault) ==
    /\ Return("get_all_stats", [tie |-> tie], get_all_stats(db, tie, fault))
    /\ UNCHANGED issued

(***************************************************************************)
(* Aggregations over a given store.  The store is drawn from stores the    *)
(* repository can build: any set of staff, and up to MaxRows incidents     *)
(* spread over the first `owners` names of OwnerOrder, stamped an hour, a  *)
(* week to the second, or forty days before the clock reading StatsNow.    *)
(***************************************************************************)
MaxRows == 8

StatsNow == 100 * Day

ReportDays == {7, 30}

Stamps == <<StatsNow - 3600, StatsNow - 7 * Day, StatsNow - 40 * Day>>

StatsRow(i, owners, stamps) ==
    [user |-> OwnerOrder[((i - 1) % owners) + 1],
     description |-> "d1",
     date |-> Stamps[((i * stamps) % Len(Stamps)) + 1],
     priority |-> IF i % 3 = 0 THEN CRITICAL ELSE NORMAL,
     closed |-> IF i % 2 = 0 THEN 1 ELSE 0]

StatsTables ==
    {[i \in 1..n |-> StatsRow(i, owners, stamps)] :
        n \in 0..MaxRows, owners \in 1..Len(OwnerOrder), stamps \in 0..2}

InitStats ==
    /\ \E table \in StatsTables, staff \in SUBSET Names :
          LET n == Cardinality(DOMAIN table)
          IN  /\ db = Committed([create_tables EXCEPT
                                    !.users = [name \in Names |->
                                                  IF name \in staff THEN 1 ELSE 0],
                                    !.mistakes = table,
                                    !.sqlite_sequence.mistakes = n])
              /\ issued = 1..n
    /\ last = [op |-> "__init__", args |-> [none |-> TRUE], ret |-> FALSE,
               raised |-> FALSE, changed |-> FALSE]
    /\ inflight = [t \in Tasks |-> Idle]

\* One aggregation of the store drawn.
FirstCall == last.op = "__init__"

NextStats ==
    \/ FirstCall /\ CallGetUsersStats(NoFault)
    \/ FirstCall /\ CallGetMistakeStats(NoFault)
    \/ FirstCall /\ CallGetPriorityStats(NoFault)
    \/ FirstCall /\ CallGetStatusStats(NoFault)
    \/ \E days \in ReportDays, tick \in {0, 1}, tie \in {"asc", "desc"} :
          FirstCall /\ CallGetPeriodStats(days, StatsNow, tick, tie, NoFault)
    \/ \E tie \in {"asc", "desc"} : FirstCall /\ CallGetAllStats(tie, NoFault)

SpecStats == InitStats /\ [][NextStats]_vars

(***************************************************************************)
(* Properties of the aggregations.                                         *)
(***************************************************************************)
RECURSIVE SumCounts(_)
SumCounts(top_users) ==
    IF top_users = <<>> THEN 0
    ELSE Head(top_users)[2] + SumCounts(Tail(top_users))

OwnersIn(conn, rows) == {u \in Owners : UserRows(conn, u) \cap rows # {}}

\* C12 (as stated): the counts of the top-5 ranking sum to the total incident
\* count of the same window, and the all-time total is the total of status
\* stats.
C12_Original ==
    last.op \in {"get_period_stats", "get_all_stats"} =>
        /\ SumCounts(last.ret.top_users) = last.ret.total[1]
        /\ last.op = "get_all_stats" =>
              last.ret.total = get_status_stats(db, NoFault).ret.total

\* top_users ranks the owners of rows: at most TopLimit of them, each with its
\* count, no owner left out having more than a listed one.
RanksTop(conn, top_users, rows) ==
    LET listed == {top_users[k][1] : k \in 1..Len(top_users)}
        owners == OwnersIn(conn, rows)
    IN  /\ listed \subseteq owners
        /\ Cardinality(listed) = Len(top_users)
        /\ Len(top_users) = (IF Cardinality(owners) > TopLimit THEN TopLimit
                             ELSE Cardinality(owners))
        /\ \A k \in 1..Len(top_users) :
              /\ top_users[k][2] = Cardinality(UserRows(conn, top_users[k][1]) \cap rows)
              /\ \A l \in (k + 1)..Len(top_users) : top_users[k][2] >= top_users[l][2]
              /\ \A u \in owners \ listed :
                    top_users[k][2] >= Cardinality(UserRows(conn, u) \cap rows)

\* C12 (amended): the ranking lists the TopLimit largest per-user counts of
\* its window, so its counts sum to the total of the window while at most
\* TopLimit users own incidents in it and to less when more do.  The all-time
\* total is the total of status stats; the period ranking is taken at a second
\* reading of the clock, so its sum never exceeds the period total and equals
\* it when at most TopLimit users own incidents and none left the window
\* between the two readings.
C12_TopFive ==
    /\ last.op = "get_all_stats" =>
          LET rows == DOMAIN db.conn.mistakes
              sum == SumCounts(last.ret.top_users)
          IN  /\ last.ret.total = get_status_stats(db, NoFault).ret.total
              /\ last.ret.total = <<Cardinality(rows)>>
              /\ RanksTop(db.conn, last.ret.top_users, rows)
              /\ Cardinality(OwnersIn(db.conn, rows)) <= TopLimit => sum = Cardinality(rows)
              /\ Cardinality(OwnersIn(db.conn, rows)) > TopLimit => sum < Cardinality(rows)
    /\ last.op = "get_period_stats" =>
          LET counted == Window(db.conn, last.args.now, last.args.days)
              ranked == Window(db.conn, last.args.now + last.args.tick, last.args.days)
              sum == SumCounts(last.ret.top_users)
          IN  /\ last.ret.total = <<Cardinality(counted)>>
              /\ RanksTop(db.conn, last.ret.top_users, ranked)
              /\ sum <= Cardinality(counted)
              /\ (Cardinality(OwnersIn(db.conn, counted)) <= TopLimit /\ ranked = counted) =>
                    sum = Cardinality(counted)
              /\ Cardinality(OwnersIn(db.conn, ranked)) > TopLimit =>
                    sum < Cardinality(counted)

C12_Witness ==
    /\ last.op = "get_period_stats"
    /\ last.args.tick = 0
    /\ Len(last.ret.top_users) = TopLimit
    /\ SumCounts(last.ret.top_users) < last.ret.total[1]

\* A count that is the number 0.
Zero(x) == x # NULL /\ x = <<0>>

\* Every field of a dict of counts is a number, and 0 when no row is counted.
AllCounts(stats, fields, rows) ==
    \A f \in fields : stats[f] # NULL /\ (rows = {} => Zero(stats[f]))

SixCounts == {"total", "active", "closed", "priority_1", "priority_2", "priority_3"}

\* C13: no aggregation reports a missing count as NULL.  get_users_stats and
\* get_mistake_stats hold an entry for every staff member, with 0, 0, 0 for a
\* member that owns no incident; status, priority, period and all-time stats
\* hold 0 in every count field when the table (or the window) is empty.
C13_Zero ==
    /\ last.op = "get_users_stats" =>
          /\ {last.ret[k][1] : k \in 1..Len(last.ret)} = Staff(db.conn)
          /\ \A k \in 1..Len(last.ret) :
                /\ \A c \in 2..4 : last.ret[k][c] # NULL
                /\ UserRows(db.conn, last.ret[k][1]) = {} =>
                      \A c \in 2..4 : Zero(last.ret[k][c])
    /\ last.op = "get_mistake_stats" =>
          /\ Staff(db.conn) \subseteq DOMAIN last.ret
          /\ \A u \in DOMAIN last.ret :
                AllCounts(last.ret[u], {"total", "active", "closed"}, UserRows(db.conn, u))
    /\ last.op = "get_status_stats" =>
          AllCounts(last.ret, {"total", "active", "closed"}, DOMAIN db.conn.mistakes)
    /\ last.op = "get_priority_stats" =>
          AllCounts(last.ret, {"Obychnyj", "Kriticheskij"}, DOMAIN db.conn.mistakes)
    /\ last.op = "get_all_stats" =>
          /\ AllCounts(last.ret, SixCounts, DOMAIN db.conn.mistakes)
          /\ DOMAIN db.conn.mistakes = {} => last.ret.top_users = <<>>
    /\ last.op = "get_period_stats" =>
          /\ AllCounts(last.ret, SixCounts,
                       Window(db.conn, last.args.now, last.args.days))
          /\ Window(db.conn, last.args.now, last.args.days) = {} =>
                last.ret.top_users = <<>>

C13_Witness ==
    /\ last.op = "get_users_stats"
    /\ DOMAIN db.conn.mistakes # {}
    /\ \E k \in 1..Len(last.ret) :
          /\ UserRows(db.conn, last.ret[k][1]) = {}
          /\ last.ret[k] = <<last.ret[k][1], <<0>>, <<0>>, <<0>>>>

\* C17: no repository call lets an exception leave the method: whatever store
\* call fails, the method returns (a False or None sentinel).
C17_NoRaise == ~last.raised

(***************************************************************************)
(* Chat texts.  A text is read as its sequence of characters; the letters  *)
(* a..z of the model stand for Cyrillic letters.                           *)
(***************************************************************************)
IsSpace(c) == c \in {" ", "\t", "\n"}

IsDigit(c) == c \in {"0", "1", "2", "3", "4", "5", "6", "7", "8", "9"}

\* [А-Яа-я]
IsCyrillic(c) ==
    c \in {"a", "b", "c", "d", "e", "f", "g", "h", "i", "j", "k", "l", "m",
           "n", "o", "p", "q", "r", "s", "t", "u", "v", "w", "x", "y", "z"}

\* The . of a pattern
NotNewline(c) == c # "\n"

\* The strings the store holds, and the string of a sequence of characters.
Stored == Owners \cup Descriptions \cup Texts

StringOf(cs) == CHOOSE s \in Stored : Chars(s) = cs

\* Where the longest run of characters of a class that starts at i ends: the
\* position after its last character.
RunEnd(t, i, Class(_)) ==
    CHOOSE j \in i..(Len(t) + 1) :
        /\ \A k \in i..(j - 1) : Class(t[k])
        /\ j = Len(t) + 1 \/ ~Class(t[j])

\* The literal lit stands in t at position i.
Literal(t, i, lit) ==
    /\ i + Len(lit) - 1 <= Len(t)
    /\ SubSeq(t, i, i + Len(lit) - 1) = lit

\* str.strip, str.startswith, str.split, str.join
strip(t) ==
    IF \A k \in 1..Len(t) : IsSpace(t[k]) THEN <<>>
    ELSE LET first == CHOOSE i \in 1..Len(t) :
                         ~IsSpace(t[i]) /\ \A k \in 1..(i - 1) : IsSpace(t[k])
             end == CHOOSE j \in 1..Len(t) :
                         ~IsSpace(t[j]) /\ \A k \in (j + 1)..Len(t) : IsSpace(t[k])
         IN  SubSeq(t, first, end)

startswith(t, prefix) == Literal(t, 1, prefix)

RECURSIVE SplitFrom(_, _)
SplitFrom(t, i) ==
    LET from == RunEnd(t, i, IsSpace)
        to == RunEnd(t, from, LAMBDA c : ~IsSpace(c))
    IN  IF from > Len(t) THEN <<>>
        ELSE <<SubSeq(t, from, to - 1)>> \o SplitFrom(t, to)

split(t) == SplitFrom(t, 1)

RECURSIVE join(_, _)
join(sep, parts) ==
    IF parts = <<>> THEN <<>>
    ELSE IF Len(parts) = 1 THEN parts[1]
    ELSE parts[1] \o sep \o join(sep, Tail(parts))

\* '+1 косяк', '-1 косяк' and '!!!'
PlusOne == <<"+", "1", " ", "k", "o", "s", "y", "a", "k">>

MinusOne == <<"-", "1", " ", "k", "o", "s", "y", "a", "k">>

Marker == <<"!", "!", "!">>

\* re.match(r'\+1 косяк\s+([А-Яа-я]+\s+[А-Яа-я]+)\s*-\s*(.+)', text), and with
\* marker the pattern that has !!!\s+ before the name: NULL when the text does
\* not start with a match, else the two groups.  Every run is the longest one:
\* the classes that follow each other share no character, and a stripped text
\* does not end in white space.
MatchCreate(text, marker) ==
    LET a == Len(PlusOne) + 1
        b == RunEnd(text, a, IsSpace)
        c == IF marker = <<>> THEN b ELSE b + Len(marker)
        d == IF marker = <<>> THEN b ELSE RunEnd(text, c, IsSpace)
        e == RunEnd(text, d, IsCyrillic)
        f == RunEnd(text, e, IsSpace)
        g == RunEnd(text, f, IsCyrillic)
        h == RunEnd(text, g, IsSpace)
        k == RunEnd(text, h + 1, IsSpace)
        m == RunEnd(text, k, NotNewline)
    IN  IF /\ Literal(text, 1, PlusOne)
           /\ b > a
           /\ marker # <<>> => (Literal(text, b, marker) /\ d > c)
           /\ e > d
           /\ f > e
           /\ g > f
           /\ Literal(text, h, <<"-">>)
           /\ m > k
        THEN <<[user |-> SubSeq(text, d, g - 1), desc |-> SubSeq(text, k, m - 1)]>>
        ELSE NULL

\* re.match(r'-1 косяк\s+#(\d+)(?:\s*-\s*(.+))?', text): NULL, or the number of
\* group 1 and group 2 (NULL when the optional part does not match).
MatchClose(text) ==
    LET a == Len(MinusOne) + 1
        b == RunEnd(text, a, IsSpace)
        c == RunEnd(text, b + 1, IsDigit)
        d == RunEnd(text, c, IsSpace)
        e == RunEnd(text, d + 1, IsSpace)
        f == RunEnd(text, e, NotNewline)
    IN  IF /\ Literal(text, 1, MinusOne)
           /\ b > a
           /\ Literal(text, b, <<"#">>)
           /\ c > b + 1
        THEN <<[mistake_id |-> IntegerOf(SubSeq(text, b + 1, c - 1)),
                comment |-> IF Literal(text, d, <<"-">>) /\ f > e
                            THEN <<SubSeq(text, e, f - 1)>> ELSE NULL]>>
        ELSE NULL

(***************************************************************************)
(* Lookups the chat handlers use.                                          *)
(***************************************************************************)
\* The comments of an incident, oldest first.
CommentsOf(conn, mistake_id) ==
    LET ids == [k \in 1..conn.sqlite_sequence.comments |-> k]
        joined(k) == k \in DOMAIN conn.comments /\ conn.comments[k].mistake_id = mistake_id
    IN  SelectSeq(ids, joined)

\* GROUP_CONCAT(c.text): NULL over no comment, else the texts with a comma
\* between them.
GROUP_CONCAT(conn, mistake_id) ==
    LET ids == CommentsOf(conn, mistake_id)
    IN  IF ids = <<>> THEN NULL
        ELSE <<join(<<",">>, [k \in 1..Len(ids) |-> Chars(conn.comments[ids[k]].text)])>>

\* dict(row) of SELECT m.*, GROUP_CONCAT(c.text) as comments
MistakeDict(conn, id) ==
    [id |-> id,
     user |-> conn.mistakes[id].user,
     description |-> conn.mistakes[id].description,
     date |-> conn.mistakes[id].date,
     priority |-> conn.mistakes[id].priority,
     closed |-> conn.mistakes[id].closed,
     comments |-> GROUP_CONCAT(conn, id)]

\* get_mistake that joins the comments ON m.id = c.id.
get_mistake_byrowid(self, mistake_id, fault) ==
    IF fault.at = 1 THEN Raised(Failed(self, self.conn, fault))
    ELSE IF mistake_id \in DOMAIN self.conn.mistakes
         THEN Result(self, <<[MistakeDict(self.conn, mistake_id) EXCEPT
                                 !.comments =
                                    IF mistake_id \in DOMAIN self.conn.comments
                                    THEN <<Chars(self.conn.comments[mistake_id].text)>>
                                    ELSE NULL]>>)
         ELSE Result(self, NULL)

get_mistake(self, mistake_id, fault) ==
    IF fault.at = 1 THEN Raised(Failed(self, self.conn, fault))
    ELSE IF mistake_id \in DOMAIN self.conn.mistakes
         THEN Result(self, <<MistakeDict(self.conn, mistake_id)>>)
         ELSE Result(self, NULL)

\* The rows a SELECT ... FROM mistakes m ... GROUP BY m.id gives for the ids
\* selected, by ascending id.
MistakeDicts(conn, selected(_)) ==
    LET ids == SelectSeq([i \in 1..conn.sqlite_sequence.mistakes |-> i],
                         LAMBDA i : i \in DOMAIN conn.mistakes /\ selected(i))
    IN  [k \in 1..Len(ids) |-> MistakeDict(conn, ids[k])]

\* DATE(m.date) = DATE(?): dates are counted in days; a date string is read as
\* the number of its day, NULL when it is no date.
get_mistakes_by_date(self, date_str, fault) ==
    LET day == IF isdigit(date_str) THEN <<IntegerOf(date_str)>> ELSE NULL
    IN  IF fault.at = 1 THEN Raised(Failed(self, self.conn, fault))
        ELSE Result(self, MistakeDicts(self.conn,
                        LAMBDA i : day # NULL /\ self.conn.mistakes[i].date \div Day = day[1]))

\* get_user_mistakes; ORDER BY m.date DESC, rows of equal date as tie picks.
get_user_mistakes(self, user, tie, fault) ==
    LET conn == self.conn
        rows == MistakeDicts(conn, LAMBDA i : Chars(conn.mistakes[i].user) = user)
    IN  IF fault.at = 1 THEN Raised(Failed(self, self.conn, fault))
        ELSE Result(self, SortSeq(rows, LAMBDA a, b : ComesBefore(conn, a.id, b.id, tie)))

has_any_data(self, fault) ==
    IF fault.at = 1 THEN Raised(Failed(self, self.conn, fault))
    ELSE Result(self, Cardinality(DOMAIN self.conn.mistakes) > 0)

(***************************************************************************)
(* Chat handlers (src/govno.py).  A handler is a function of the handle    *)
(* and the event; it yields the handle afterwards, the replies it sent and *)
(* the repository calls it made with what each returned, and whether an    *)
(* exception left the handler.  No handler awaits between two repository   *)
(* calls: it awaits only its replies.  At most one repository call of a    *)
(* handler meets a store failure: its fault.call-th.                       *)
(***************************************************************************)
ADMIN_IDS == {42}

Actors == ADMIN_IDS \cup {7}

is_admin(user_id) == user_id \in ADMIN_IDS

NoChatFault == [call |-> 0, at |-> 0, rollback |-> FALSE]

CallFault(fault, k) ==
    IF fault.call = k THEN [at |-> fault.at, rollback |-> fault.rollback] ELSE NoFault

Handled(self, replies, calls) ==
    [self |-> self, ret |-> [replies |-> replies, calls |-> calls], raised |-> FALSE]

Crashed(self, calls) ==
    [self |-> self, ret |-> [replies |-> <<>>, calls |-> calls], raised |-> TRUE]

Called(op, r) == [op |-> op, ret |-> r.ret, raised |-> r.raised]

\* [row[0] for row in rows] as character sequences, for `name in users`.
CharsOfAll(names) == {Chars(names[k]) : k \in 1..Len(names)}

\* callback.data.split(':')[1]
RECURSIVE SplitColon(_, _)
SplitColon(t, i) ==
    LET to == RunEnd(t, i, LAMBDA c : c # ":")
    IN  IF to > Len(t) THEN <<SubSeq(t, i, Len(t))>>
        ELSE <<SubSeq(t, i, to - 1)>> \o SplitColon(t, to + 1)

Field1(data) == SplitColon(Chars(data), 1)[2]

cmd_start(self, message) ==
    IF ~is_admin(message.from_user) THEN Handled(self, <<<<"no access">>>>, <<>>)
    ELSE Handled(self, <<<<"hello", "admin_kb">>>>, <<>>)

\* cmd_add_user without the is_admin check.
cmd_add_user_open(self, message, fault) ==
    LET args == Tail(split(Chars(message.text)))
        user_name == join(<<" ">>, args)
        added == add_user(self, StringOf(user_name), CallFault(fault, 1))
    IN  IF Len(args) < 2 THEN Handled(self, <<<<"usage /add_user">>>>, <<>>)
        ELSE IF added.raised THEN Crashed(added.self, <<Called("add_user", added)>>)
        ELSE Handled(added.self,
                     <<<<IF added.ret THEN "added" ELSE "already exists", user_name>>>>,
                     <<Called("add_user", added)>>)

cmd_add_user(self, message, fault) ==
    LET args == Tail(split(Chars(message.text)))
        user_name == join(<<" ">>, args)
        added == add_user(self, StringOf(user_name), CallFault(fault, 1))
    IN  IF ~is_admin(message.from_user) THEN Handled(self, <<>>, <<>>)
        ELSE IF Len(args) < 2 THEN Handled(self, <<<<"usage /add_user">>>>, <<>>)
        ELSE IF added.raised THEN Crashed(added.self, <<Called("add_user", added)>>)
        ELSE Handled(added.self,
                     <<<<IF added.ret THEN "added" ELSE "already exists", user_name>>>>,
                     <<Called("add_user", added)>>)

\* cmd_del_user: every exception ends in handle_db_error's reply.
cmd_del_user(self, message, fault) ==
    LET args == Tail(split(Chars(message.text)))
        user_name == join(<<" ">>, args)
        users == get_users(self, CallFault(fault, 1))
        deleted == delete_user(users.self, StringOf(user_name), CallFault(fault, 2))
    IN  IF ~is_admin(message.from_user) THEN Handled(self, <<>>, <<>>)
        ELSE IF Len(args) < 2 THEN Handled(self, <<<<"usage /del_user">>>>, <<>>)
        ELSE IF users.raised
             THEN Handled(users.self, <<<<"database error">>>>, <<Called("get_users", users)>>)
        ELSE IF user_name \notin CharsOfAll(users.ret)
             THEN Handled(users.self, <<<<"not found", user_name>>>>,
                          <<Called("get_users", users)>>)
        ELSE Handled(deleted.self,
                     <<<<IF deleted.ret THEN "deleted" ELSE "cannot delete", user_name>>>>,
                     <<Called("get_users", users), Called("delete_user", deleted)>>)

\* find_mistake: int() of a missing or non-numeric argument is answered with
\* the usage text.
find_mistake(self, message, fault) ==
    LET words == split(Chars(message.text))
        mistake_id == IntegerOf(words[2])
        mistake == get_mistake(self, mistake_id, CallFault(fault, 1))
    IN  IF ~is_admin(message.from_user) THEN Handled(self, <<>>, <<>>)
        ELSE IF Len(words) < 2 \/ ~isdigit(words[2])
             THEN Handled(self, <<<<"usage /find_mistake">>>>, <<>>)
        ELSE IF mistake.raised THEN Crashed(mistake.self, <<Called("get_mistake", mistake)>>)
        ELSE IF mistake.ret # NULL
             THEN Handled(mistake.self, <<<<"details", mistake.ret[1]>>>>,
                          <<Called("get_mistake", mistake)>>)
        ELSE Handled(mistake.self, <<<<"not found", mistake_id>>>>,
                     <<Called("get_mistake", mistake)>>)

find_by_date(self, message, fault) ==
    LET words == split(Chars(message.text))
        mistakes == get_mistakes_by_date(self, words[2], CallFault(fault, 1))
    IN  IF ~is_admin(message.from_user) THEN Handled(self, <<>>, <<>>)
        ELSE IF Len(words) < 2 THEN Handled(self, <<<<"usage /find_date">>>>, <<>>)
        ELSE IF mistakes.raised
             THEN Crashed(mistakes.self, <<Called("get_mistakes_by_date", mistakes)>>)
        ELSE Handled(mistakes.self,
                     <<<<IF mistakes.ret # <<>> THEN "found" ELSE "none found", mistakes.ret>>>>,
                     <<Called("get_mistakes_by_date", mistakes)>>)

cmd_clear_stats(self, message) ==
    IF ~is_admin(message.from_user) THEN Handled(self, <<>>, <<>>)
    ELSE Handled(self, <<<<"are you sure", "clear_stats:confirm", "clear_stats:cancel">>>>, <<>>)

process_clear_stats(self, callback, fault) ==
    LET action == Field1(callback.data)
        cleared == clear_mistakes(self, CallFault(fault, 1))
    IN  IF ~is_admin(callback.from_user) THEN Handled(self, <<<<"no access">>>>, <<>>)
        ELSE IF action = Chars("confirm")
             THEN Handled(cleared.self,
                          <<<<IF cleared.ret THEN "cleared" ELSE "error while clearing">>>>,
                          <<Called("clear_mistakes", cleared)>>)
        ELSE Handled(self, <<<<"cancelled">>>>, <<>>)

show_users_menu(self, message, fault) ==
    LET users == get_users(self, CallFault(fault, 1))
    IN  IF ~is_admin(message.from_user) THEN Handled(self, <<>>, <<>>)
        ELSE IF users.raised THEN Crashed(users.self, <<Called("get_users", users)>>)
        ELSE Handled(users.self,
                     <<<<IF users.ret = <<>> THEN "no staff yet" ELSE "staff", users.ret>>>>,
                     <<Called("get_users", users)>>)

show_statistics_menu(self, message) ==
    IF ~is_admin(message.from_user) THEN Handled(self, <<>>, <<>>)
    ELSE Handled(self, <<<<"choose statistics", "stats_type:users",
                           "stats_type:priority", "stats_type:status">>>>, <<>>)

show_reports_menu(self, message, fault) ==
    LET any == has_any_data(self, CallFault(fault, 1))
    IN  IF ~is_admin(message.from_user) THEN Handled(self, <<>>, <<>>)
        ELSE IF any.raised THEN Crashed(any.self, <<Called("has_any_data", any)>>)
        ELSE IF ~any.ret
             THEN Handled(any.self, <<<<"no data for reports">>>>,
                          <<Called("has_any_data", any)>>)
        ELSE Handled(any.self,
                     <<<<"choose period", "report:week", "report:month", "report:all">>>>,
                     <<Called("has_any_data", any)>>)

show_search_menu(self, message) ==
    IF ~is_admin(message.from_user) THEN Handled(self, <<>>, <<>>)
    ELSE Handled(self, <<<<"choose search", "search:by_user", "search:by_id",
                           "search:by_date">>>>, <<>>)

process_search_callback(self, callback, fault) ==
    LET search_type == Field1(callback.data)
        users == get_users(self, CallFault(fault, 1))
    IN  IF ~is_admin(callback.from_user) THEN Handled(self, <<<<"no access">>>>, <<>>)
        ELSE IF search_type = Chars("by_user")
             THEN IF users.raised THEN Crashed(users.self, <<Called("get_users", users)>>)
                  ELSE Handled(users.self,
                               <<<<IF users.ret = <<>> THEN "no staff yet" ELSE "choose staff",
                                   users.ret>>>>,
                               <<Called("get_users", users)>>)
        ELSE IF search_type = Chars("by_id")
             THEN Handled(self, <<<<"use /find_mistake">>>>, <<>>)
        ELSE IF search_type = Chars("by_date")
             THEN Handled(self, <<<<"use /find_date">>>>, <<>>)
        ELSE Handled(self, <<>>, <<>>)

process_show_user_callback(self, callback, tie, fault) ==
    LET user == Field1(callback.data)
        mistakes == get_user_mistakes(self, user, tie, CallFault(fault, 1))
    IN  IF ~is_admin(callback.from_user) THEN Handled(self, <<<<"no access">>>>, <<>>)
        ELSE IF mistakes.raised
             THEN Crashed(mistakes.self, <<Called("get_user_mistakes", mistakes)>>)
        ELSE Handled(mistakes.self,
                     <<<<IF mistakes.ret = <<>> THEN "no mistakes" ELSE "mistakes of",
                         user, mistakes.ret>>>>,
                     <<Called("get_user_mistakes", mistakes)>>)

\* The per-user view: for user, active, closed, total in stats, the lines
\* total or 0, active or 0, closed or 0.
UsersView(stats) ==
    [k \in 1..Len(stats) |->
        [user |-> stats[k][1], total |-> OrZero(stats[k][4]),
         active |-> OrZero(stats[k][2]), closed |-> OrZero(stats[k][3])]]

\* process_stats_type; a stats type other than the three leaves `response`
\* unbound and the handler raises.
process_stats_type(self, callback, fault) ==
    LET stats_type == Field1(callback.data)
        users == get_users_stats(self, CallFault(fault, 1))
        priority == get_priority_stats(self, CallFault(fault, 1))
        status == get_status_stats(self, CallFault(fault, 1))
    IN  IF ~is_admin(callback.from_user) THEN Handled(self, <<<<"no access">>>>, <<>>)
        ELSE IF stats_type = Chars("users")
             THEN IF users.raised
                  THEN Crashed(users.self, <<Called("get_users_stats", users)>>)
                  ELSE IF users.ret = <<>>
                       THEN Handled(users.self, <<<<"by staff", "no data">>>>,
                                    <<Called("get_users_stats", users)>>)
                       ELSE Handled(users.self, <<<<"by staff", UsersView(users.ret)>>>>,
                                    <<Called("get_users_stats", users)>>)
        ELSE IF stats_type = Chars("priority")
             THEN IF priority.raised
                  THEN Crashed(priority.self, <<Called("get_priority_stats", priority)>>)
                  ELSE Handled(priority.self, <<<<"by priority", priority.ret>>>>,
                               <<Called("get_priority_stats", priority)>>)
        ELSE IF stats_type = Chars("status")
             THEN IF status.raised
                  THEN Crashed(status.self, <<Called("get_status_stats", status)>>)
                  ELSE Handled(status.self, <<<<"by status", status.ret>>>>,
                               <<Called("get_status_stats", status)>>)
        ELSE Crashed(self, <<>>)

process_report(self, callback, now, tick, tie, fault) ==
    LET period == Field1(callback.data)
        days == IF period = Chars("week") THEN <<7>>
                ELSE IF period = Chars("month") THEN <<30>> ELSE NULL
        stats == IF days # NULL
                 THEN get_period_stats(self, days[1], now, tick, tie, CallFault(fault, 1))
                 ELSE get_all_stats(self, tie, CallFault(fault, 1))
        called == Called(IF days # NULL THEN "get_period_stats" ELSE "get_all_stats", stats)
    IN  IF ~is_admin(callback.from_user) THEN Handled(self, <<<<"no access">>>>, <<>>)
        ELSE IF stats.raised THEN Crashed(stats.self, <<called>>)
        ELSE Handled(stats.self, <<<<"report", period, stats.ret>>>>, <<called>>)

\* group_handler, the branch of a text that starts with '+1 косяк', with the
\* staff check left out.
CreateCommand_anyowner(self, message, text, now, fault) ==
    LET critical == Contains(Marker, text)
        match == MatchCreate(text, IF critical THEN Marker ELSE <<>>)
        priority == IF critical THEN 2 ELSE 1
        user == match[1].user
        desc == match[1].desc
        added == add_mistake(self, StringOf(user), StringOf(desc), priority, now,
                             CallFault(fault, 1))
    IN  IF match = NULL THEN Handled(self, <<<<"wrong format">>>>, <<>>)
        ELSE IF added.ret # NULL
             THEN Handled(added.self, <<<<"added", added.ret[1], user, priority, desc>>>>,
                          <<Called("add_mistake", added)>>)
        ELSE Handled(added.self, <<<<"error while adding">>>>,
                     <<Called("add_mistake", added)>>)

\* group_handler, the branch of a text that starts with '+1 косяк'.
CreateCommand(self, message, text, now, fault) ==
    LET critical == Contains(Marker, text)
        match == MatchCreate(text, IF critical THEN Marker ELSE <<>>)
        priority == IF critical THEN 2 ELSE 1
        user == match[1].user
        desc == match[1].desc
        users == get_users(self, CallFault(fault, 1))
        again == get_users(users.self, CallFault(fault, 2))
        added == add_mistake(users.self, StringOf(user), StringOf(desc), priority, now,
                             CallFault(fault, 2))
    IN  IF match = NULL THEN Handled(self, <<<<"wrong format">>>>, <<>>)
        ELSE IF users.raised THEN Crashed(users.self, <<Called("get_users", users)>>)
        ELSE IF user \notin CharsOfAll(users.ret)
             THEN IF again.raised
                  THEN Crashed(again.self,
                               <<Called("get_users", users), Called("get_users", again)>>)
                  ELSE Handled(again.self, <<<<"staff not found", user, again.ret>>>>,
                               <<Called("get_users", users), Called("get_users", again)>>)
        ELSE IF added.ret # NULL
             THEN Handled(added.self, <<<<"added", added.ret[1], user, priority, desc>>>>,
                          <<Called("get_users", users), Called("add_mistake", added)>>)
        ELSE Handled(added.self, <<<<"error while adding">>>>,
                     <<Called("get_users", users), Called("add_mistake", added)>>)

\* The branch of '-1 косяк' without the mistake_exists check.
CloseCommand_unchecked(self, message, text, now, fault) ==
    LET match == MatchClose(text)
        mistake_id == match[1].mistake_id
        comment == match[1].comment
        closed == close_mistake(self, mistake_id, CallFault(fault, 2))
        commented == add_comment(closed.self, mistake_id, message.from_user,
                                 StringOf(comment[1]), now, CallFault(fault, 3))
        calls == <<Called("close_mistake", closed)>>
    IN  IF match = NULL THEN Handled(self, <<<<"wrong format">>>>, <<>>)
        ELSE IF ~closed.ret
             THEN Handled(closed.self, <<<<"error while closing", mistake_id>>>>, calls)
        ELSE IF comment # NULL
             THEN Handled(commented.self, <<<<"closed", mistake_id, comment>>>>,
                          Append(calls, Called("add_comment", commented)))
        ELSE Handled(closed.self, <<<<"closed", mistake_id, NULL>>>>, calls)

\* group_handler, the branch of a text that starts with '-1 косяк'.
CloseCommand(self, message, text, now, fault) ==
    LET match == MatchClose(text)
        mistake_id == match[1].mistake_id
        comment == match[1].comment
        exists == mistake_exists(self, mistake_id, CallFault(fault, 1))
        closed == close_mistake(exists.self, mistake_id, CallFault(fault, 2))
        commented == add_comment(closed.self, mistake_id, message.from_user,
                                 StringOf(comment[1]), now, CallFault(fault, 3))
        calls == <<Called("mistake_exists", exists), Called("close_mistake", closed)>>
    IN  IF match = NULL THEN Handled(self, <<<<"wrong format">>>>, <<>>)
        ELSE IF exists.raised THEN Crashed(exists.self, <<Called("mistake_exists", exists)>>)
        ELSE IF ~exists.ret
             THEN Handled(exists.self, <<<<"mistake not found", mistake_id>>>>,
                          <<Called("mistake_exists", exists)>>)
        ELSE IF ~closed.ret
             THEN Handled(closed.self, <<<<"error while closing", mistake_id>>>>, calls)
        ELSE IF comment # NULL
             THEN Handled(commented.self, <<<<"closed", mistake_id, comment>>>>,
                          Append(calls, Called("add_comment", commented)))
        ELSE Handled(closed.self, <<<<"closed", mistake_id, NULL>>>>, calls)

group_handler(self, message, now, fault) ==
    LET text == strip(Chars(message.text))
    IN  IF message.text = "" THEN Handled(self, <<>>, <<>>)
        ELSE IF ~is_admin(message.from_user) THEN Handled(self, <<>>, <<>>)
        ELSE IF startswith(text, PlusOne) THEN CreateCommand(self, message, text, now, fault)
        ELSE IF startswith(text, MinusOne) THEN CloseCommand(self, message, text, now, fault)
        ELSE Handled(self, <<>>, <<>>)

(***************************************************************************)
(* The chat: one action per handler the dispatcher registers, taken by an  *)
(* administrator or by somebody else.  `last` records the handler, its     *)
(* event and, as ret, the replies and the repository calls made.           *)
(***************************************************************************)
Message(from_user, text) == [text |-> text, from_user |-> from_user]

CallbackQuery(from_user, data) == [data |-> data, from_user |-> from_user]

\* The ids the add_mistake calls of a handler returned.
Added(calls) ==
    {calls[k].ret[1] : k \in {j \in 1..Len(calls) :
                                /\ calls[j].op = "add_mistake"
                                /\ ~calls[j].raised
                                /\ Len(calls[j].ret) > 0}}

Dispatch(op, event, r) ==
    /\ r.self.conn.sqlite_sequence.mistakes <= MaxId
    /\ r.self.conn.sqlite_sequence.comments <= MaxComments
    /\ Return(op, event, r)
    /\ issued' = issued \cup Added(r.ret.calls)

\* Messages of the group.
GroupTexts ==
    {"", "hello",
     "+1 kosyak i p - d1", "+1 kosyak !!! i p - d1", "+1 kosyak i p - d!!!",
     "+1 kosyak i p d1", "+1 kosyak u c - d1",
     "-1 kosyak #1", "-1 kosyak #1 - fixed", "-1 kosyak #2 - fixed",
     "-1 kosyak #9 - fixed",
     "-1 kosyak 1", "-1 kosyak #1x"}

\* The closures that meet a store failure: the UPDATE of close_mistake
\* raises.
ClosureTexts == {"-1 kosyak #1", "-1 kosyak #1 - fixed"}

ChatFaults == {[call |-> 2, at |-> 1, rollback |-> FALSE]}

OnStart(message) == Dispatch("cmd_start", message, cmd_start(db, message))

OnAddUser(message) ==
    Dispatch("cmd_add_user", message, cmd_add_user(db, message, NoChatFault))

OnDelUser(message) ==
    Dispatch("cmd_del_user", message, cmd_del_user(db, message, NoChatFault))

OnFindMistake(message) ==
    Dispatch("find_mistake", message, find_mistake(db, message, NoChatFault))

OnFindDate(message) ==
    Dispatch("find_by_date", message, find_by_date(db, message, NoChatFault))

OnClearStats(message) == Dispatch("cmd_clear_stats", message, cmd_clear_stats(db, message))

OnClearStatsCallback(callback) ==
    Dispatch("process_clear_stats", callback, process_clear_stats(db, callback, NoChatFault))

OnUsersMenu(message) ==
    Dispatch("show_users_menu", message, show_users_menu(db, message, NoChatFault))

OnStatisticsMenu(message) ==
    Dispatch("show_statistics_menu", message, show_statistics_menu(db, message))

OnReportsMenu(message) ==
    Dispatch("show_reports_menu", message, show_reports_menu(db, message, NoChatFault))

OnSearchMenu(message) ==
    Dispatch("show_search_menu", message, show_search_menu(db, message))

OnSearchCallback(callback) ==
    Dispatch("process_search_callback", callback,
             process_search_callback(db, callback, NoChatFault))

OnShowUserCallback(callback, tie) ==
    Dispatch("process_show_user_callback", callback,
             process_show_user_callback(db, callback, tie, NoChatFault))

OnStatsType(callback) ==
    Dispatch("process_stats_type", callback, process_stats_type(db, callback, NoChatFault))

OnReport(callback, now, tie) ==
    Dispatch("process_report", callback, process_report(db, callback, now, 0, tie, NoChatFault))

OnGroupMessage(message, now, fault) ==
    Dispatch("group_handler", message, group_handler(db, message, now, fault))

NextChat ==
    \/ \E u \in Actors : OnStart(Message(u, "/start"))
    \/ \E u \in Actors, text \in {"/add_user i p", "/add_user  o  s ", "/add_user i"} :
          OnAddUser(Message(u, text))
    \/ \E u \in Actors, text \in {"/del_user i p", "/del_user o s", "/del_user i"} :
          OnDelUser(Message(u, text))
    \/ \E u \in Actors, text \in {"/find_mistake 1", "/find_mistake x"} :
          OnFindMistake(Message(u, text))
    \/ \E u \in Actors, text \in {"/find_date 0", "/find_date"} :
          OnFindDate(Message(u, text))
    \/ \E u \in Actors : OnClearStats(Message(u, "/clear_stats"))
    \/ \E u \in Actors, data \in {"clear_stats:confirm", "clear_stats:cancel"} :
          OnClearStatsCallback(CallbackQuery(u, data))
    \/ \E u \in Actors : OnUsersMenu(Message(u, "menu"))
    \/ \E u \in Actors : OnStatisticsMenu(Message(u, "menu"))
    \/ \E u \in Actors : OnReportsMenu(Message(u, "menu"))
    \/ \E u \in Actors : OnSearchMenu(Message(u, "menu"))
    \/ \E u \in Actors, data \in {"search:by_user", "search:by_id"} :
          OnSearchCallback(CallbackQuery(u, data))
    \/ \E u \in Actors, tie \in {"asc", "desc"} :
          OnShowUserCallback(CallbackQuery(u, "show_user:i p"), tie)
    \/ \E u \in Actors,
          data \in {"stats_type:users", "stats_type:priority", "stats_type:status",
                    "stats_type:"} :
          OnStatsType(CallbackQuery(u, data))
    \/ \E u \in Actors, data \in {"report:week", "report:month", "report:all"},
          now \in Times :
          OnReport(CallbackQuery(u, data), now, "asc")
    \/ \E u \in Actors, text \in GroupTexts, now \in Times :
          OnGroupMessage(Message(u, text), now, NoChatFault)
    \/ \E u \in Actors, text \in ClosureTexts, now \in Times, fault \in ChatFaults :
          OnGroupMessage(Message(u, text), now, fault)

SpecChat == Init /\ [][NextChat]_vars

(***************************************************************************)
(* Properties of the chat.                                                 *)
(***************************************************************************)
OpenMistakes(conn) == {i \in DOMAIN conn.mistakes : conn.mistakes[i].closed = 0}

\* C20: in every state reached through the chat handlers, every incident
\* with closed = 0 is owned by a name that is in the staff list.
C20_OpenOwned ==
    \A i \in OpenMistakes(db.conn) : db.conn.mistakes[i].user \in Staff(db.conn)

\* An administrator asked to remove a member who owns an open incident, and
\* was refused.
C20_Witness ==
    /\ last.op = "cmd_del_user"
    /\ Len(last.ret.calls) = 2
    /\ last.ret.calls[2].op = "delete_user"
    /\ ~last.ret.calls[2].ret
    /\ OpenMistakes(db.conn) # {}

\* C15: an event from an actor who is not in ADMIN_IDS never changes the
\* store, whatever the handler and whatever the text or the callback data.
C15_NonAdmin == [][~is_admin(last'.args.from_user) => db' = db]_vars

\* Somebody who is no administrator sent a creation command that names a
\* staff member.
C15_Witness ==
    /\ last.op = "group_handler"
    /\ ~is_admin(last.args.from_user)
    /\ last.args.text = "+1 kosyak i p - d1"
    /\ "i p" \in Staff(db.conn)

\* The last event was a message of the group sent by an administrator.
GroupByAdmin == last.op = "group_handler" /\ is_admin(last.args.from_user)

GroupText == strip(Chars(last.args.text))

\* The creation forms: '+1 косяк <Name Surname> - <description>', and the
\* same with '!!!' between the command token and the name.
NormalForm(text) == MatchCreate(text, <<>>)

CriticalForm(text) == MatchCreate(text, Marker)

\* The closure forms: '-1 косяк #<id>', or the same followed by
\* '- <comment>', with nothing after it.
ClosureForm(text) ==
    LET match == MatchClose(text)
        digits == RunEnd(text, RunEnd(text, Len(MinusOne) + 1, IsSpace) + 1, IsDigit)
    IN  /\ match # NULL
        /\ \/ match[1].comment = NULL /\ digits = Len(text) + 1
           \/ /\ match[1].comment # NULL
              /\ \A k \in digits..Len(text) : NotNewline(text[k])

Rejections == {"wrong format", "staff not found", "mistake not found"}

\* The text fails validation as a creation command: it has neither form, or
\* names someone who is not a staff member.
FailsCreation(text, conn) ==
    /\ startswith(text, PlusOne)
    /\ \/ NormalForm(text) = NULL /\ CriticalForm(text) = NULL
       \/ \E form \in {NormalForm(text), CriticalForm(text)} :
             form # NULL /\ form[1].user \notin {Chars(n) : n \in Staff(conn)}

\* The text fails validation as a closure command: it has neither form, or
\* has the id of no incident.
FailsClosure(text, conn) ==
    /\ startswith(text, MinusOne)
    /\ \/ ~ClosureForm(text)
       \/ MatchClose(text)[1].mistake_id \notin DOMAIN conn.mistakes

\* C16: a creation or closure command of the group that fails validation
\* changes no state and is answered with a rejection.
C16_Rejected ==
    (GroupByAdmin /\ (FailsCreation(GroupText, db.conn) \/ FailsClosure(GroupText, db.conn)))
        => /\ ~last.changed
           /\ Len(last.ret.replies) = 1
           /\ last.ret.replies[1][1] \in Rejections

\* The step inserts exactly one incident, open, with the given owner,
\* description and priority, and leaves the others as they were.
InsertsOne(user, desc, priority) ==
    \E id \in DOMAIN db'.conn.mistakes \ DOMAIN db.conn.mistakes :
        /\ DOMAIN db'.conn.mistakes = DOMAIN db.conn.mistakes \cup {id}
        /\ \A i \in DOMAIN db.conn.mistakes : db'.conn.mistakes[i] = db.conn.mistakes[i]
        /\ Chars(db'.conn.mistakes[id].user) = user
        /\ Chars(db'.conn.mistakes[id].description) = desc
        /\ db'.conn.mistakes[id].priority = priority
        /\ db'.conn.mistakes[id].closed = 0

CreationStep ==
    LET text == strip(Chars(last'.args.text))
        normal == NormalForm(text)
        critical == CriticalForm(text)
        known(form) == form[1].user \in {Chars(n) : n \in Staff(db.conn)}
    IN  (last'.op = "group_handler" /\ is_admin(last'.args.from_user))
            => /\ (normal # NULL /\ known(normal))
                    => InsertsOne(normal[1].user, normal[1].desc, NORMAL)
               /\ (critical # NULL /\ known(critical))
                    => InsertsOne(critical[1].user, critical[1].desc, CRITICAL)

\* C18: an administrator's message '+1 косяк <Name Surname> - <description>'
\* that names a staff member creates exactly one incident of priority NORMAL
\* whatever the description, the same message with '!!!' before the name
\* exactly one of priority CRITICAL, with the owner and the description of
\* the message.
C18_Created == [][CreationStep]_vars

HasCall(calls, op) == \E k \in 1..Len(calls) : calls[k].op = op

\* What an administrator's closure command did, read against its text: the
\* comment is added only after close_mistake returned True and only when the
\* text has one; when the incident exists and the close succeeds, both calls
\* return True and get_mistake gives the incident closed, with the comment
\* last among its comments.
ClosureDone ==
    LET match == MatchClose(GroupText)
        mistake_id == match[1].mistake_id
        comment == match[1].comment
        calls == last.ret.calls
        mistake == get_mistake(db, mistake_id, NoFault).ret
        comments == mistake[1].comments[1]
    IN  (GroupByAdmin /\ startswith(GroupText, MinusOne) /\ match # NULL)
            => /\ HasCall(calls, "add_comment")
                    => /\ comment # NULL
                       /\ Len(calls) = 3
                       /\ calls[2].op = "close_mistake" /\ calls[2].ret
               /\ comment = NULL => ~HasCall(calls, "add_comment")
               /\ (comment # NULL /\ Len(calls) >= 2 /\ calls[2].ret)
                    => /\ Len(calls) = 3
                       /\ calls[3].op = "add_comment" /\ calls[3].ret
                       /\ mistake # NULL
                       /\ mistake[1].closed = 1
                       /\ mistake[1].comments # NULL
                       /\ Len(comments) >= Len(comment[1])
                       /\ SubSeq(comments, Len(comments) - Len(comment[1]) + 1, Len(comments))
                              = comment[1]

\* A closure that was answered with `closed`: get_mistake gives the priority
\* the incident had, and its comments are the ones it had followed by the
\* comment of the closure, or the ones it had when the closure has none; a
\* message handled without a call of add_comment leaves the comments as they
\* were.
ClosureStep ==
    /\ (last'.op = "group_handler" /\ ~HasCall(last'.ret.calls, "add_comment"))
          => db'.conn.comments = db.conn.comments
    /\ (/\ last'.op = "group_handler"
        /\ Len(last'.ret.replies) = 1
        /\ last'.ret.replies[1][1] = "closed")
          => LET mistake_id == last'.ret.replies[1][2]
                 comment == last'.ret.replies[1][3]
                 before == get_mistake(db, mistake_id, NoFault).ret[1]
                 after == get_mistake(db', mistake_id, NoFault).ret[1]
             IN  /\ after.priority = before.priority
                 /\ after.closed = 1
                 /\ after.comments =
                       IF comment = NULL THEN before.comments
                       ELSE IF before.comments = NULL THEN comment
                       ELSE <<before.comments[1] \o <<",">> \o comment[1]>>

\* C19: closing an incident with a comment makes close_mistake and
\* add_comment both return True, and get_mistake then gives closed = 1, the
\* priority of the creation and exactly the comments added for the incident;
\* a closure without a comment adds none, and a comment is added only when
\* close_mistake returned True.
C19_Closure == []ClosureDone /\ [][ClosureStep]_vars

\* An administrator closed the second incident with a comment, the first
\* comment of the store.
C19_Witness ==
    /\ GroupByAdmin
    /\ last.args.text = "-1 kosyak #2 - fixed"
    /\ Len(last.ret.calls) = 3
    /\ last.ret.calls[3].op = "add_comment"
    /\ last.ret.calls[3].ret
    /\ db.conn.mistakes[2].priority = CRITICAL

RECURSIVE SumTotals(_)
SumTotals(view) ==
    IF view = <<>> THEN 0 ELSE view[1].total[1] + SumTotals(Tail(view))

\* C14: the totals the per-user statistics view shows sum to the total of
\* get_status_stats, and each member's active and closed add up to its
\* total.
C14_PerUser ==
    (/\ last.op = "process_stats_type"
     /\ is_admin(last.args.from_user)
     /\ last.args.data = "stats_type:users"
     /\ ~last.raised)
        => LET view == UsersView(last.ret.calls[1].ret)
           IN  /\ SumTotals(view) = get_status_stats(db, NoFault).ret.total[1]
               /\ \A k \in 1..Len(view) :
                      view[k].active[1] + view[k].closed[1] = view[k].total[1]

\* C21: in every state reached through the chat handlers, every stored
\* comment has the mistake_id of an incident that is stored.
C21_CommentsRefer ==
    \A c \in DOMAIN db.conn.comments :
        db.conn.comments[c].mistake_id \in DOMAIN db.conn.mistakes

\* An administrator confirmed the clearing of a store that held a comment:
\* the incidents and the comments are gone together.
C21_Witness ==
    /\ last.op = "process_clear_stats"
    /\ last.changed
    /\ db.conn.sqlite_sequence.comments > 0
    /\ DOMAIN db.conn.comments = {}
    /\ DOMAIN db.conn.mistakes = {}

(***************************************************************************)
(* Handlers in flight.  A coroutine runs until it awaits; the event loop   *)
(* then runs another one, or starts the handler of the next event.  The    *)
(* positions of a handler are the places before its repository calls and   *)
(* its await: start (before the first call), delete, insert, close,        *)
(* comment (before the call of that name) and reply (at its               *)
(* `await message.reply(...)` or `await callback...`).  A step runs the     *)
(* code from one position to the next.                                     *)
(***************************************************************************)
\* The positions at which a handler awaits, with only its replies awaiting
\* and every repository call between them.
AwaitPoints_everycall == {"reply", "delete", "insert", "close", "comment"}

\* The positions at which a handler awaits.
AwaitPoints == {"reply"}

\* The coroutines the event loop is in the middle of: at most one.
Running == {t \in Tasks : inflight[t].pc \notin AwaitPoints \cup {"idle"}}

At(task, pc) == [task EXCEPT !.pc = pc]

Stepped(self, task) == [self |-> self, task |-> task]

\* cmd_add_user from start.
StepAddUser(self, task) ==
    LET args == Tail(split(Chars(task.event.text)))
        added == add_user(self, StringOf(join(<<" ">>, args)), NoFault)
    IN  IF ~is_admin(task.event.from_user) THEN Stepped(self, Idle)
        ELSE IF Len(args) < 2 THEN Stepped(self, At(task, "reply"))
        ELSE Stepped(added.self, At(task, "reply"))

\* cmd_del_user from start (the check against get_users) and from delete.
StepDelUser(self, task) ==
    LET args == Tail(split(Chars(task.event.text)))
        user_name == join(<<" ">>, args)
        users == get_users(self, NoFault)
        deleted == delete_user(self, task.user, NoFault)
    IN  IF task.pc = "delete" THEN Stepped(deleted.self, At(task, "reply"))
        ELSE IF ~is_admin(task.event.from_user) THEN Stepped(self, Idle)
        ELSE IF Len(args) < 2 THEN Stepped(self, At(task, "reply"))
        ELSE IF user_name \notin CharsOfAll(users.ret) THEN Stepped(self, At(task, "reply"))
        ELSE Stepped(self, [At(task, "delete") EXCEPT !.user = StringOf(user_name)])

\* group_handler, creation: from start (the check against get_users) and
\* from insert.
StepCreate(self, task, text, now) ==
    LET critical == Contains(Marker, text)
        match == MatchCreate(text, IF critical THEN Marker ELSE <<>>)
        users == get_users(self, NoFault)
        added == add_mistake(self, task.user, task.description, task.priority, now, NoFault)
    IN  IF task.pc = "insert" THEN Stepped(added.self, At(task, "reply"))
        ELSE IF match = NULL THEN Stepped(self, At(task, "reply"))
        ELSE IF match[1].user \notin CharsOfAll(users.ret)
             THEN Stepped(self, At(task, "reply"))
        ELSE Stepped(self, [At(task, "insert") EXCEPT
                               !.user = StringOf(match[1].user),
                               !.description = StringOf(match[1].desc),
                               !.priority = IF critical THEN 2 ELSE 1])

\* group_handler, closure: from start (the check with mistake_exists), from
\* close and from comment.
StepClose(self, task, text, now) ==
    LET match == MatchClose(text)
        exists == mistake_exists(self, match[1].mistake_id, NoFault)
        closed == close_mistake(self, task.mistake_id, NoFault)
        commented == add_comment(self, task.mistake_id, task.event.from_user,
                                 task.comment[1], now, NoFault)
    IN  IF task.pc = "comment" THEN Stepped(commented.self, At(task, "reply"))
        ELSE IF task.pc = "close"
             THEN IF closed.ret /\ task.comment # NULL
                  THEN Stepped(closed.self, At(task, "comment"))
                  ELSE Stepped(closed.self, At(task, "reply"))
        ELSE IF match = NULL THEN Stepped(self, At(task, "reply"))
        ELSE IF ~exists.ret THEN Stepped(self, At(task, "reply"))
        ELSE Stepped(self, [At(task, "close") EXCEPT
                               !.mistake_id = match[1].mistake_id,
                               !.comment = IF match[1].comment = NULL THEN NULL
                                           ELSE <<StringOf(match[1].comment[1])>>])

\* group_handler: a message without text, from somebody who is no
\* administrator or with neither prefix is dropped without a reply.
StepGroup(self, task, now) ==
    LET text == strip(Chars(task.event.text))
    IN  IF task.pc = "start" /\ task.event.text = "" THEN Stepped(self, Idle)
        ELSE IF task.pc = "start" /\ ~is_admin(task.event.from_user) THEN Stepped(self, Idle)
        ELSE IF startswith(text, PlusOne) THEN StepCreate(self, task, text, now)
        ELSE IF startswith(text, MinusOne) THEN StepClose(self, task, text, now)
        ELSE Stepped(self, Idle)

\* process_clear_stats from start.
StepClearStats(self, task) ==
    LET cleared == clear_mistakes(self, NoFault)
    IN  IF ~is_admin(task.event.from_user) THEN Stepped(self, At(task, "reply"))
        ELSE IF Field1(task.event.data) = Chars("confirm")
             THEN Stepped(cleared.self, At(task, "reply"))
        ELSE Stepped(self, At(task, "reply"))

\* The code of a handler from the position it stands at to the next one; from
\* reply it returns.
StepOf(self, task, now) ==
    IF task.pc = "reply" THEN Stepped(self, Idle)
    ELSE IF task.op = "cmd_add_user" THEN StepAddUser(self, task)
    ELSE IF task.op = "cmd_del_user" THEN StepDelUser(self, task)
    ELSE IF task.op = "group_handler" THEN StepGroup(self, task, now)
    ELSE StepClearStats(self, task)

\* The dispatcher starts the handler of an event on a coroutine that is not
\* in flight, when the event loop is free.
Deliver(t, op, event) ==
    /\ inflight[t].pc = "idle"
    /\ Running = {}
    /\ inflight' = [inflight EXCEPT ![t] = [Idle EXCEPT !.op = op, !.pc = "start",
                                                        !.event = event]]
    /\ last' = [op |-> op, args |-> [pc |-> "idle", task |-> t], ret |-> FALSE,
                raised |-> FALSE, changed |-> FALSE]
    /\ UNCHANGED <<db, issued>>

\* The event loop runs a coroutine in flight to its next position: the one
\* it is in the middle of, or any one that awaits when it is in the middle
\* of none.
Resume(t, now) ==
    LET r == StepOf(db, inflight[t], now)
    IN  /\ inflight[t].pc # "idle"
        /\ Running \subseteq {t}
        /\ r.self.conn.sqlite_sequence.mistakes <= MaxId
        /\ r.self.conn.sqlite_sequence.comments <= MaxComments
        /\ db' = r.self
        /\ inflight' = [inflight EXCEPT ![t] = r.task]
        /\ last' = [op |-> inflight[t].op, args |-> [pc |-> inflight[t].pc, task |-> t],
                    ret |-> FALSE, raised |-> FALSE, changed |-> r.self # db]
        /\ issued' = issued \cup (DOMAIN r.self.conn.mistakes \ DOMAIN db.conn.mistakes)

TaskTexts == {"+1 kosyak i p - d1", "-1 kosyak #1 - fixed", "-1 kosyak #1"}

NextTasks ==
    \/ \E t \in Tasks, u \in ADMIN_IDS : Deliver(t, "cmd_add_user", Message(u, "/add_user i p"))
    \/ \E t \in Tasks, u \in ADMIN_IDS : Deliver(t, "cmd_del_user", Message(u, "/del_user i p"))
    \/ \E t \in Tasks, u \in ADMIN_IDS, text \in TaskTexts :
          Deliver(t, "group_handler", Message(u, text))
    \/ \E t \in Tasks, u \in ADMIN_IDS :
          Deliver(t, "process_clear_stats", CallbackQuery(u, "clear_stats:confirm"))
    \/ \E t \in Tasks, now \in Times : Resume(t, now)

SpecTasks == Init /\ [][NextTasks]_vars

\* The open incidents are owned by staff and the comments refer to stored
\* incidents.
Consistent ==
    /\ \A i \in OpenMistakes(db.conn) : db.conn.mistakes[i].user \in Staff(db.conn)
    /\ \A c \in DOMAIN db.conn.comments :
          db.conn.comments[c].mistake_id \in DOMAIN db.conn.mistakes

\* What a handler checked still holds where it stands before the write that
\* depends on it.
CheckHolds(task) ==
    /\ task.pc = "insert" => task.user \in Staff(db.conn)
    /\ task.pc \in {"close", "comment"} => task.mistake_id \in DOMAIN db.conn.mistakes
    /\ task.pc = "delete" => task.user \in Staff(db.conn)

\* C22: with several handlers in flight that interleave at their awaits, no
\* repository call of another handler comes between a handler's check and
\* the write that depends on it: the event loop is in the middle of at most
\* one handler, what each handler checked holds before its write, and no
\* incident is left with an owner who was removed nor a comment with an
\* incident that was cleared.
C22_CheckThenWrite ==
    /\ Cardinality(Running) <= 1
    /\ \A t \in Tasks : CheckHolds(inflight[t])
    /\ Consistent

\* One handler awaits its reply after creating an incident while the handler
\* of a removal stands between its check and its delete_user.
C22_Witness ==
    \E t, u \in Tasks :
        /\ inflight[t].op = "group_handler" /\ inflight[t].pc = "reply"
        /\ inflight[u].op = "cmd_del_user" /\ inflight[u].pc = "delete"
        /\ OpenMistakes(db.conn) # {}

====
